---- MODULE Spec2Model ----
(***************************************************************************)
(* favigen: the PNG -> ICO encoder (utils/ico) and the command-line run    *)
(* that feeds it.                                                          *)
(*                                                                         *)
(* A Buffer is a record [isBuffer, bytes]: bytes is the sequence of its    *)
(* octets (TLA+ sequences start at 1, Buffer offsets at 0: At(b, k) is     *)
(* b[k]).  A value that is not a Buffer has isBuffer = FALSE.              *)
(* JavaScript strings are sequences of character codes.                    *)
(* Numbers stay below 2^31: the inputs never put a byte >= 128 where a     *)
(* 32-bit big-endian read would take it as the top byte.                   *)
(***************************************************************************)
EXTENDS Integers, Sequences, FiniteSets, TLC

VARIABLES
    pngBuffers,     \* encodeIco's argument
    pc,             \* where the call is
    i,              \* the index of the loop that is running
    imageInfos,     \* encodeIco: the validated images
    dimensionSet,   \* encodeIco: the `${width}x${height}` keys seen
    warnings,       \* what console.warn was called with
    header,         \* encodeIco: the 6-byte header
    dirEntries,     \* encodeIco: the directory table
    offset,         \* encodeIco: the running payload offset
    result,         \* the Buffer encodeIco returned
    error,          \* the Error thrown
    icoInfo,        \* what getIcoInfo returned
    icoBuffer,      \* the argument of isValidIco / getIcoInfo
    pngBuffer,      \* pngToIco's argument
    legacy,         \* the earlier encodeIco: its call's position and locals
    icoValid,       \* what isValidIco did: "true", "false", "threw"; "none" before
    options,        \* the command line: yes, dryRun, manifest, browserconfig
    sizes,          \* the parsed --sizes list
    outputPath,     \* what path.normalize / path.relative say of --output
    fs,             \* the files that exist in the output directory
    dirMade,        \* the run created the output directory
    writes,         \* the writeFile / writeJson calls made: path, data, existed
    answered,       \* the prompts answered: path, answer
    mainPc,         \* where the main function is
    task,           \* generatePngIcons: the state of the task of each size
    buffers,        \* what generatePngIcons returned
    tile,           \* generateBrowserConfig: the index of the tile loop
    exitCode        \* the exit code of the process, -1 while it runs

encVars == <<i, imageInfos, dimensionSet, warnings, header, dirEntries, offset>>

cliVars == <<options, sizes, outputPath, fs, dirMade, writes, answered, mainPc,
             task, buffers, tile, exitCode>>

icoVars == <<icoBuffer, icoValid>>

vars == <<pngBuffers, pc, encVars, result, error, icoInfo, icoVars, pngBuffer, cliVars>>

(***************************************************************************)
(* Bounds of the model                                                     *)
(***************************************************************************)
\* longest batch enumerated in full over CoreBuffers
MaxBatch == 3
\* longest run of bytes following the IHDR fields (offset 24) in an input
MaxTail == 2

(***************************************************************************)
(* Constants of the program                                                *)
(***************************************************************************)
PNG_SIGNATURE == <<137, 80, 78, 71, 13, 10, 26, 10>>

HEADER_SIZE == 6
DIR_ENTRY_SIZE == 16
MAX_IMAGES == 256
MAX_DIMENSION == 256
TYPE_ICO == 1
TYPE_CUR == 2
PLANES == 1
BITS_PER_PIXEL == 32

\* validateAndExtractPngInfo: the shortest buffer that holds the IHDR fields
MIN_PNG_LENGTH == 24
\* validateAndExtractPngInfo: the length an IHDR chunk declares
IHDR_LENGTH == 13
\* the string 'IHDR' as character codes
IHDR == <<73, 72, 68, 82>>

(***************************************************************************)
(* Buffer primitives (node:buffer)                                         *)
(***************************************************************************)
Buf(bytes) == [isBuffer |-> TRUE, bytes |-> bytes]

NotABuffer == [isBuffer |-> FALSE, bytes |-> <<>>]

At(bytes, k) == bytes[k + 1]

\* Buffer.alloc(n): n zero bytes
Alloc(n) == [k \in 1..n |-> 0]

readUInt32BE(bytes, off) ==
    At(bytes, off) * 16777216 + At(bytes, off + 1) * 65536
        + At(bytes, off + 2) * 256 + At(bytes, off + 3)

readUInt16LE(bytes, off) == At(bytes, off) + At(bytes, off + 1) * 256

readUInt32LE(bytes, off) ==
    At(bytes, off) + At(bytes, off + 1) * 256
        + At(bytes, off + 2) * 65536 + At(bytes, off + 3) * 16777216

\* source.copy(target, off): target with source's bytes written at off, as many
\* as fit
CopyInto(target, off, source) ==
    LET n == IF Len(source) < Len(target) - off THEN Len(source) ELSE Len(target) - off
    IN SubSeq(target, 1, off) \o SubSeq(source, 1, n)
          \o SubSeq(target, off + n + 1, Len(target))

writeUInt16LE(bytes, value, off) ==
    CopyInto(bytes, off, <<value % 256, (value \div 256) % 256>>)

writeUInt32LE(bytes, value, off) ==
    CopyInto(bytes, off, <<value % 256, (value \div 256) % 256,
                           (value \div 65536) % 256, (value \div 16777216) % 256>>)

\* buf[k] = value on a Uint8Array: the value is stored modulo 256
SetByte(bytes, k, value) == [bytes EXCEPT ![k + 1] = value % 256]

\* buffer.toString('ascii', start, end): decoding clears bit 7 of every byte
toStringAscii(bytes, start, end) ==
    [k \in 1..(end - start) |-> At(bytes, start + k - 1) % 128]

(***************************************************************************)
(* Errors: the message's parts, kind / image index / interpolated values   *)
(***************************************************************************)
Err(kind, index, detail) == [kind |-> kind, index |-> index, detail |-> detail]

NoError == Err("none", 0, <<>>)

\* the earlier encodeIco before it is called
NoLegacy ==
    [pc |-> "idle", i |-> 0, header |-> <<>>, dirEntries |-> <<>>, offset |-> 0,
     result |-> NotABuffer, error |-> NoError]

NoInfo == [buffer |-> NotABuffer, width |-> 0, height |-> 0, size |-> 0]

Threw(err) == [ok |-> FALSE, info |-> NoInfo, error |-> err]

\* for (i = 0; i < PNG_SIGNATURE.length; i++) if (buffer[i] !== PNG_SIGNATURE[i])
\* the first index from k on that differs, or -1 when the loop runs to its end
RECURSIVE SignatureMismatch(_, _)
SignatureMismatch(bytes, k) ==
    IF k >= Len(PNG_SIGNATURE) THEN -1
    ELSE IF At(bytes, k) # At(PNG_SIGNATURE, k) THEN k
    ELSE SignatureMismatch(bytes, k + 1)


\* validateAndExtractPngInfo with the size check made before the zero check
validateAndExtractPngInfo_largeFirst(buffer, index) ==
    IF ~buffer.isBuffer
    THEN Threw(Err("ExpectedBuffer", index, <<>>))
    ELSE IF Len(buffer.bytes) < MIN_PNG_LENGTH
    THEN Threw(Err("TooSmall", index, <<Len(buffer.bytes)>>))
    ELSE IF SignatureMismatch(buffer.bytes, 0) # -1
    THEN Threw(Err("InvalidSignature", index, <<SignatureMismatch(buffer.bytes, 0)>>))
    ELSE LET ihdrLength == readUInt32BE(buffer.bytes, 8)
             ihdrType == toStringAscii(buffer.bytes, 12, 16)
             width == readUInt32BE(buffer.bytes, 16)
             height == readUInt32BE(buffer.bytes, 20)
         IN IF ihdrLength # IHDR_LENGTH
            THEN Threw(Err("InvalidIhdrLength", index, <<ihdrLength>>))
            ELSE IF ihdrType # IHDR
            THEN Threw(Err("ExpectedIhdr", index, ihdrType))
            ELSE IF width > MAX_DIMENSION \/ height > MAX_DIMENSION
            THEN Threw(Err("DimensionsTooLarge", index, <<width, height>>))
            ELSE IF width = 0 \/ height = 0
            THEN Threw(Err("InvalidDimensions", index, <<width, height>>))
            ELSE [ok |-> TRUE,
                  info |-> [buffer |-> buffer, width |-> width,
                            height |-> height, size |-> Len(buffer.bytes)],
                  error |-> NoError]

\* validateAndExtractPngInfo with && for || in the size check
validateAndExtractPngInfo_bothTooLarge(buffer, index) ==
    IF ~buffer.isBuffer
    THEN Threw(Err("ExpectedBuffer", index, <<>>))
    ELSE IF Len(buffer.bytes) < MIN_PNG_LENGTH
    THEN Threw(Err("TooSmall", index, <<Len(buffer.bytes)>>))
    ELSE IF SignatureMismatch(buffer.bytes, 0) # -1
    THEN Threw(Err("InvalidSignature", index, <<SignatureMismatch(buffer.bytes, 0)>>))
    ELSE LET ihdrLength == readUInt32BE(buffer.bytes, 8)
             ihdrType == toStringAscii(buffer.bytes, 12, 16)
             width == readUInt32BE(buffer.bytes, 16)
             height == readUInt32BE(buffer.bytes, 20)
         IN IF ihdrLength # IHDR_LENGTH
            THEN Threw(Err("InvalidIhdrLength", index, <<ihdrLength>>))
            ELSE IF ihdrType # IHDR
            THEN Threw(Err("ExpectedIhdr", index, ihdrType))
            ELSE IF width = 0 \/ height = 0
            THEN Threw(Err("InvalidDimensions", index, <<width, height>>))
            ELSE IF width > MAX_DIMENSION /\ height > MAX_DIMENSION
            THEN Threw(Err("DimensionsTooLarge", index, <<width, height>>))
            ELSE [ok |-> TRUE,
                  info |-> [buffer |-> buffer, width |-> width,
                            height |-> height, size |-> Len(buffer.bytes)],
                  error |-> NoError]

validateAndExtractPngInfo(buffer, index) ==
    IF ~buffer.isBuffer
    THEN Threw(Err("ExpectedBuffer", index, <<>>))
    ELSE IF Len(buffer.bytes) < MIN_PNG_LENGTH
    THEN Threw(Err("TooSmall", index, <<Len(buffer.bytes)>>))
    ELSE IF SignatureMismatch(buffer.bytes, 0) # -1
    THEN Threw(Err("InvalidSignature", index, <<SignatureMismatch(buffer.bytes, 0)>>))
    ELSE LET ihdrLength == readUInt32BE(buffer.bytes, 8)
             ihdrType == toStringAscii(buffer.bytes, 12, 16)
             width == readUInt32BE(buffer.bytes, 16)
             height == readUInt32BE(buffer.bytes, 20)
         IN IF ihdrLength # IHDR_LENGTH
            THEN Threw(Err("InvalidIhdrLength", index, <<ihdrLength>>))
            ELSE IF ihdrType # IHDR
            THEN Threw(Err("ExpectedIhdr", index, ihdrType))
            ELSE IF width = 0 \/ height = 0
            THEN Threw(Err("InvalidDimensions", index, <<width, height>>))
            ELSE IF width > MAX_DIMENSION \/ height > MAX_DIMENSION
            THEN Threw(Err("DimensionsTooLarge", index, <<width, height>>))
            ELSE [ok |-> TRUE,
                  info |-> [buffer |-> buffer, width |-> width,
                            height |-> height, size |-> Len(buffer.bytes)],
                  error |-> NoError]


\* createIcoDirectoryEntry with the offsets of planes and bits per pixel swapped
createIcoDirectoryEntry_planesSwapped(imageInfo, dataOffset) ==
    LET e0 == Alloc(DIR_ENTRY_SIZE)
        e1 == SetByte(e0, 0, IF imageInfo.width = MAX_DIMENSION THEN 0 ELSE imageInfo.width)
        e2 == SetByte(e1, 1, IF imageInfo.height = MAX_DIMENSION THEN 0 ELSE imageInfo.height)
        e3 == SetByte(e2, 2, 0)
        e4 == SetByte(e3, 3, 0)
        e5 == writeUInt16LE(e4, PLANES, 6)
        e6 == writeUInt16LE(e5, BITS_PER_PIXEL, 4)
        e7 == writeUInt32LE(e6, imageInfo.size, 8)
    IN writeUInt32LE(e7, dataOffset, 12)

createIcoDirectoryEntry(imageInfo, dataOffset) ==
    LET e0 == Alloc(DIR_ENTRY_SIZE)
        e1 == SetByte(e0, 0, IF imageInfo.width = MAX_DIMENSION THEN 0 ELSE imageInfo.width)
        e2 == SetByte(e1, 1, IF imageInfo.height = MAX_DIMENSION THEN 0 ELSE imageInfo.height)
        e3 == SetByte(e2, 2, 0)
        e4 == SetByte(e3, 3, 0)
        e5 == writeUInt16LE(e4, PLANES, 4)
        e6 == writeUInt16LE(e5, BITS_PER_PIXEL, 6)
        e7 == writeUInt32LE(e6, imageInfo.size, 8)
    IN writeUInt32LE(e7, dataOffset, 12)

(***************************************************************************)
(* encodeIco, a step at a time                                             *)
(***************************************************************************)
\* a batch: the value passed as pngBuffers, an array (items) or something else
Batch(items) == [isArray |-> TRUE, items |-> items]

NotAnArray == [isArray |-> FALSE, items |-> <<>>]

\* Buffer.concat(list[lo..hi]): the bytes of those buffers, in order
RECURSIVE BufferConcat(_, _, _)
BufferConcat(list, lo, hi) ==
    IF lo > hi THEN <<>>
    ELSE IF lo = hi THEN list[lo].bytes
    ELSE BufferConcat(list, lo, (lo + hi) \div 2)
            \o BufferConcat(list, (lo + hi) \div 2 + 1, hi)


\* CheckArguments with >= for > in the check against MAX_IMAGES
CheckArguments_offByOne ==
    /\ pc = "ready"
    /\ IF ~pngBuffers.isArray
       THEN pc' = "threw" /\ error' = Err("NotAnArray", 0, <<>>)
       ELSE IF Len(pngBuffers.items) = 0
       THEN pc' = "threw" /\ error' = Err("NoBuffers", 0, <<>>)
       ELSE IF Len(pngBuffers.items) >= MAX_IMAGES
       THEN pc' = "threw" /\ error' = Err("TooManyImages", 0, <<Len(pngBuffers.items)>>)
       ELSE pc' = "validate" /\ error' = error
    /\ i' = 0
    /\ imageInfos' = <<>>
    /\ UNCHANGED <<pngBuffers, dimensionSet, warnings, header, dirEntries, offset,
                   result, icoInfo>>
    /\ UNCHANGED cliVars
    /\ UNCHANGED <<pngBuffer, legacy>>
    /\ UNCHANGED icoVars

\* the argument checks
CheckArguments ==
    /\ pc = "ready"
    /\ IF ~pngBuffers.isArray
       THEN pc' = "threw" /\ error' = Err("NotAnArray", 0, <<>>)
       ELSE IF Len(pngBuffers.items) = 0
       THEN pc' = "threw" /\ error' = Err("NoBuffers", 0, <<>>)
       ELSE IF Len(pngBuffers.items) > MAX_IMAGES
       THEN pc' = "threw" /\ error' = Err("TooManyImages", 0, <<Len(pngBuffers.items)>>)
       ELSE pc' = "validate" /\ error' = error
    /\ i' = 0
    /\ imageInfos' = <<>>
    /\ UNCHANGED <<pngBuffers, dimensionSet, warnings, header, dirEntries, offset,
                   result, icoInfo>>
    /\ UNCHANGED cliVars
    /\ UNCHANGED <<pngBuffer, legacy>>
    /\ UNCHANGED icoVars

\* a validation loop that reports the loop index, from 0, of the failed image
ValidateStep_zeroBasedIndex ==
    /\ pc = "validate"
    /\ i < Len(pngBuffers.items)
    /\ LET r == validateAndExtractPngInfo(At(pngBuffers.items, i), i)
       IN IF r.ok
          THEN /\ imageInfos' = Append(imageInfos, r.info)
               /\ pc' = IF i + 1 < Len(pngBuffers.items) THEN "validate" ELSE "duplicates"
               /\ i' = IF i + 1 < Len(pngBuffers.items) THEN i + 1 ELSE 0
               /\ error' = error
          ELSE /\ error' = Err("FailedToProcess", i, <<r.error>>)
               /\ pc' = "threw"
               /\ UNCHANGED <<i, imageInfos>>
    /\ dimensionSet' = {}
    /\ UNCHANGED <<pngBuffers, warnings, header, dirEntries, offset, result, icoInfo>>
    /\ UNCHANGED cliVars
    /\ UNCHANGED <<pngBuffer, legacy>>
    /\ UNCHANGED icoVars

\* a validation loop that drops a buffer it cannot validate and goes on
ValidateStep_skipInvalid ==
    /\ pc = "validate"
    /\ i < Len(pngBuffers.items)
    /\ LET r == validateAndExtractPngInfo(At(pngBuffers.items, i), i + 1)
       IN /\ imageInfos' = IF r.ok THEN Append(imageInfos, r.info) ELSE imageInfos
          /\ pc' = IF i + 1 < Len(pngBuffers.items) THEN "validate" ELSE "duplicates"
          /\ i' = IF i + 1 < Len(pngBuffers.items) THEN i + 1 ELSE 0
          /\ error' = error
    /\ dimensionSet' = {}
    /\ UNCHANGED <<pngBuffers, warnings, header, dirEntries, offset, result, icoInfo>>
    /\ UNCHANGED cliVars
    /\ UNCHANGED <<pngBuffer, legacy>>
    /\ UNCHANGED icoVars

\* one turn of the validation loop; the last one goes on to the duplicate check
ValidateStep ==
    /\ pc = "validate"
    /\ i < Len(pngBuffers.items)
    /\ LET r == validateAndExtractPngInfo(At(pngBuffers.items, i), i + 1)
       IN IF r.ok
          THEN /\ imageInfos' = Append(imageInfos, r.info)
               /\ pc' = IF i + 1 < Len(pngBuffers.items) THEN "validate" ELSE "duplicates"
               /\ i' = IF i + 1 < Len(pngBuffers.items) THEN i + 1 ELSE 0
               /\ error' = error
          ELSE /\ error' = Err("FailedToProcess", i + 1, <<r.error>>)
               /\ pc' = "threw"
               /\ UNCHANGED <<i, imageInfos>>
    /\ dimensionSet' = {}
    /\ UNCHANGED <<pngBuffers, warnings, header, dirEntries, offset, result, icoInfo>>
    /\ UNCHANGED cliVars
    /\ UNCHANGED <<pngBuffer, legacy>>
    /\ UNCHANGED icoVars

\* a duplicate-dimension loop that throws at a repeated key
DuplicateStep_throws ==
    /\ pc = "duplicates"
    /\ i < Len(imageInfos)
    /\ LET key == <<At(imageInfos, i).width, At(imageInfos, i).height>>
       IN /\ warnings' = warnings
          /\ dimensionSet' = dimensionSet \cup {key}
          /\ pc' = IF key \in dimensionSet THEN "threw"
                   ELSE IF i + 1 < Len(imageInfos) THEN "duplicates" ELSE "header"
          /\ error' = IF key \in dimensionSet THEN Err("Duplicate", i + 1, <<key>>) ELSE error
    /\ i' = i + 1
    /\ UNCHANGED <<pngBuffers, imageInfos, header, dirEntries, offset, result, icoInfo>>
    /\ UNCHANGED cliVars
    /\ UNCHANGED <<pngBuffer, legacy>>
    /\ UNCHANGED icoVars

\* one turn of the duplicate-dimension loop; the key `${width}x${height}` is
\* the pair <<width, height>>
DuplicateStep ==
    /\ pc = "duplicates"
    /\ i < Len(imageInfos)
    /\ LET key == <<At(imageInfos, i).width, At(imageInfos, i).height>>
       IN /\ warnings' = IF key \in dimensionSet THEN Append(warnings, key) ELSE warnings
          /\ dimensionSet' = dimensionSet \cup {key}
    /\ pc' = IF i + 1 < Len(imageInfos) THEN "duplicates" ELSE "header"
    /\ i' = i + 1
    /\ UNCHANGED <<pngBuffers, imageInfos, header, dirEntries, offset, result,
                   error, icoInfo>>
    /\ UNCHANGED cliVars
    /\ UNCHANGED <<pngBuffer, legacy>>
    /\ UNCHANGED icoVars


\* BuildHeader writing the cursor type
BuildHeader_cursorType ==
    /\ pc = "header"
    /\ LET count == Len(imageInfos)
           h0 == Alloc(HEADER_SIZE)
           h1 == writeUInt16LE(h0, 0, 0)
           h2 == writeUInt16LE(h1, TYPE_CUR, 2)
           h3 == writeUInt16LE(h2, count, 4)
           d0 == Alloc(DIR_ENTRY_SIZE * count)
       IN /\ header' = h3
          /\ dirEntries' = d0
          /\ offset' = Len(h3) + Len(d0)
    /\ i' = 0
    /\ pc' = "directory"
    /\ UNCHANGED <<pngBuffers, imageInfos, dimensionSet, warnings, result, error,
                   icoInfo>>
    /\ UNCHANGED cliVars
    /\ UNCHANGED <<pngBuffer, legacy>>
    /\ UNCHANGED icoVars

\* BuildHeader writing the index of the last image as the count
BuildHeader_countLastIndex ==
    /\ pc = "header"
    /\ LET count == Len(imageInfos)
           h0 == Alloc(HEADER_SIZE)
           h1 == writeUInt16LE(h0, 0, 0)
           h2 == writeUInt16LE(h1, TYPE_ICO, 2)
           h3 == writeUInt16LE(h2, count - 1, 4)
           d0 == Alloc(DIR_ENTRY_SIZE * count)
       IN /\ header' = h3
          /\ dirEntries' = d0
          /\ offset' = Len(h3) + Len(d0)
    /\ i' = 0
    /\ pc' = "directory"
    /\ UNCHANGED <<pngBuffers, imageInfos, dimensionSet, warnings, result, error,
                   icoInfo>>
    /\ UNCHANGED cliVars
    /\ UNCHANGED <<pngBuffer, legacy>>
    /\ UNCHANGED icoVars

\* BuildHeader starting the payload offsets right behind the header
BuildHeader_offsetSkipsTable ==
    /\ pc = "header"
    /\ LET count == Len(imageInfos)
           h0 == Alloc(HEADER_SIZE)
           h1 == writeUInt16LE(h0, 0, 0)
           h2 == writeUInt16LE(h1, TYPE_ICO, 2)
           h3 == writeUInt16LE(h2, count, 4)
           d0 == Alloc(DIR_ENTRY_SIZE * count)
       IN /\ header' = h3
          /\ dirEntries' = d0
          /\ offset' = Len(h3)
    /\ i' = 0
    /\ pc' = "directory"
    /\ UNCHANGED <<pngBuffers, imageInfos, dimensionSet, warnings, result, error,
                   icoInfo>>
    /\ UNCHANGED cliVars
    /\ UNCHANGED <<pngBuffer, legacy>>
    /\ UNCHANGED icoVars

\* the header, the empty directory table and the first payload offset
BuildHeader ==
    /\ pc = "header"
    /\ LET count == Len(imageInfos)
           h0 == Alloc(HEADER_SIZE)
           h1 == writeUInt16LE(h0, 0, 0)
           h2 == writeUInt16LE(h1, TYPE_ICO, 2)
           h3 == writeUInt16LE(h2, count, 4)
           d0 == Alloc(DIR_ENTRY_SIZE * count)
       IN /\ header' = h3
          /\ dirEntries' = d0
          /\ offset' = Len(h3) + Len(d0)
    /\ i' = 0
    /\ pc' = "directory"
    /\ UNCHANGED <<pngBuffers, imageInfos, dimensionSet, warnings, result, error,
                   icoInfo>>
    /\ UNCHANGED cliVars
    /\ UNCHANGED <<pngBuffer, legacy>>
    /\ UNCHANGED icoVars


\* DirectoryStep without the advance of the running offset
DirectoryStep_offsetStuck ==
    /\ pc = "directory"
    /\ i < Len(imageInfos)
    /\ dirEntries' = CopyInto(dirEntries, i * DIR_ENTRY_SIZE,
                              createIcoDirectoryEntry(At(imageInfos, i), offset))
    /\ offset' = offset
    /\ i' = i + 1
    /\ pc' = IF i + 1 < Len(imageInfos) THEN "directory" ELSE "concat"
    /\ UNCHANGED <<pngBuffers, imageInfos, dimensionSet, warnings, header, result,
                   error, icoInfo>>
    /\ UNCHANGED cliVars
    /\ UNCHANGED <<pngBuffer, legacy>>
    /\ UNCHANGED icoVars

\* one turn of the directory loop
DirectoryStep ==
    /\ pc = "directory"
    /\ i < Len(imageInfos)
    /\ dirEntries' = CopyInto(dirEntries, i * DIR_ENTRY_SIZE,
                              createIcoDirectoryEntry(At(imageInfos, i), offset))
    /\ offset' = offset + At(imageInfos, i).size
    /\ i' = i + 1
    /\ pc' = IF i + 1 < Len(imageInfos) THEN "directory" ELSE "concat"
    /\ UNCHANGED <<pngBuffers, imageInfos, dimensionSet, warnings, header, result,
                   error, icoInfo>>
    /\ UNCHANGED cliVars
    /\ UNCHANGED <<pngBuffer, legacy>>
    /\ UNCHANGED icoVars


\* Concat with the payloads put before the directory table
Concat_payloadsFirst ==
    /\ pc = "concat"
    /\ LET imageBuffers == [k \in 1..Len(imageInfos) |-> imageInfos[k].buffer]
           list == <<Buf(header)>> \o imageBuffers \o <<Buf(dirEntries)>>
       IN result' = Buf(BufferConcat(list, 1, Len(list)))
    /\ pc' = "returned"
    /\ UNCHANGED <<pngBuffers, encVars, error, icoInfo>>
    /\ UNCHANGED cliVars
    /\ UNCHANGED <<pngBuffer, legacy>>
    /\ UNCHANGED icoVars

\* Concat that first copies the header into the first input buffer
Concat_headerIntoInput ==
    /\ pc = "concat"
    /\ LET imageBuffers == [k \in 1..Len(imageInfos) |-> imageInfos[k].buffer]
           list == <<Buf(header), Buf(dirEntries)>> \o imageBuffers
       IN result' = Buf(BufferConcat(list, 1, Len(list)))
    /\ pngBuffers' = [pngBuffers EXCEPT !.items[1] =
                         Buf(CopyInto(pngBuffers.items[1].bytes, 0, header))]
    /\ pc' = "returned"
    /\ UNCHANGED <<encVars, error, icoInfo>>
    /\ UNCHANGED cliVars
    /\ UNCHANGED <<pngBuffer, legacy>>
    /\ UNCHANGED icoVars

\* return Buffer.concat([header, dirEntries, ...imageBuffers])
Concat ==
    /\ pc = "concat"
    /\ LET imageBuffers == [k \in 1..Len(imageInfos) |-> imageInfos[k].buffer]
           list == <<Buf(header), Buf(dirEntries)>> \o imageBuffers
       IN result' = Buf(BufferConcat(list, 1, Len(list)))
    /\ pc' = "returned"
    /\ UNCHANGED <<pngBuffers, encVars, error, icoInfo>>
    /\ UNCHANGED cliVars
    /\ UNCHANGED <<pngBuffer, legacy>>
    /\ UNCHANGED icoVars

(***************************************************************************)
(* isValidIco, getIcoInfo                                                  *)
(***************************************************************************)
\* a read of n bytes at off that Node refuses (ERR_OUT_OF_RANGE)
OutOfRange(bytes, off, n) == off + n > Len(bytes)

\* isValidIco with a count that must stay below MAX_IMAGES
isValidIcoCall_countBelowMax(buffer) ==
    IF ~buffer.isBuffer \/ Len(buffer.bytes) < HEADER_SIZE
    THEN [threw |-> FALSE, value |-> FALSE]
    ELSE IF \E off \in {0, 2, 4} : OutOfRange(buffer.bytes, off, 2)
    THEN [threw |-> TRUE, value |-> FALSE]
    ELSE LET reserved == readUInt16LE(buffer.bytes, 0)
             type == readUInt16LE(buffer.bytes, 2)
             count == readUInt16LE(buffer.bytes, 4)
         IN [threw |-> FALSE,
             value |-> reserved = 0 /\ (type = TYPE_ICO \/ type = TYPE_CUR)
                          /\ count > 0 /\ count < MAX_IMAGES]

\* isValidIco with a length check that lets buffers of 4 and 5 bytes through
isValidIcoCall_shortGuard(buffer) ==
    IF ~buffer.isBuffer \/ Len(buffer.bytes) < 4
    THEN [threw |-> FALSE, value |-> FALSE]
    ELSE IF \E off \in {0, 2, 4} : OutOfRange(buffer.bytes, off, 2)
    THEN [threw |-> TRUE, value |-> FALSE]
    ELSE LET reserved == readUInt16LE(buffer.bytes, 0)
             type == readUInt16LE(buffer.bytes, 2)
             count == readUInt16LE(buffer.bytes, 4)
         IN [threw |-> FALSE,
             value |-> reserved = 0 /\ (type = TYPE_ICO \/ type = TYPE_CUR)
                          /\ count > 0 /\ count <= MAX_IMAGES]

\* a call of isValidIco: the boolean it returns, or that one of its reads threw
isValidIcoCall(buffer) ==
    IF ~buffer.isBuffer \/ Len(buffer.bytes) < HEADER_SIZE
    THEN [threw |-> FALSE, value |-> FALSE]
    ELSE IF \E off \in {0, 2, 4} : OutOfRange(buffer.bytes, off, 2)
    THEN [threw |-> TRUE, value |-> FALSE]
    ELSE LET reserved == readUInt16LE(buffer.bytes, 0)
             type == readUInt16LE(buffer.bytes, 2)
             count == readUInt16LE(buffer.bytes, 4)
         IN [threw |-> FALSE,
             value |-> reserved = 0 /\ (type = TYPE_ICO \/ type = TYPE_CUR)
                          /\ count > 0 /\ count <= MAX_IMAGES]

isValidIco(buffer) == isValidIcoCall(buffer).value

NoIcoInfo == [imageCount |-> 0, type |-> "none", images |-> <<>>]

\* the buffer the caller passes to isValidIco / getIcoInfo: the one encodeIco
\* just returned, or the one the caller came with
IcoArgument == IF pc = "returned" THEN result ELSE icoBuffer

\* a caller of the library calls isValidIco
IsValidIco ==
    /\ mainPc = "library"
    /\ pc \in {"returned", "given"}
    /\ icoBuffer' = IcoArgument
    /\ LET r == isValidIcoCall(IcoArgument)
       IN icoValid' = IF r.threw THEN "threw" ELSE IF r.value THEN "true" ELSE "false"
    /\ pc' = "checked"
    /\ UNCHANGED <<pngBuffers, encVars, result, error, icoInfo>>
    /\ UNCHANGED cliVars
    /\ UNCHANGED <<pngBuffer, legacy>>

\* a caller of the library calls getIcoInfo: the validity check, type and count
GetIcoInfo ==
    /\ mainPc = "library"
    /\ pc \in {"returned", "given", "checked"}
    /\ icoBuffer' = IcoArgument
    /\ IF isValidIcoCall(IcoArgument).threw \/ ~isValidIco(IcoArgument)
       THEN /\ pc' = "infoThrew"
            /\ error' = IF isValidIcoCall(IcoArgument).threw
                        THEN Err("OutOfRange", 0, <<>>)
                        ELSE Err("InvalidIco", 0, <<>>)
            /\ icoInfo' = icoInfo
       ELSE LET type == readUInt16LE(IcoArgument.bytes, 2)
                count == readUInt16LE(IcoArgument.bytes, 4)
            IN /\ icoInfo' = [imageCount |-> count,
                              type |-> IF type = TYPE_ICO THEN "ICO" ELSE "CUR",
                              images |-> <<>>]
               /\ pc' = "walk"
               /\ error' = error
    /\ i' = 0
    /\ UNCHANGED <<pngBuffers, imageInfos, dimensionSet, warnings, header,
                   dirEntries, offset, result, icoValid>>
    /\ UNCHANGED cliVars
    /\ UNCHANGED <<pngBuffer, legacy>>

\* InfoStep reading the size where the offset is stored
InfoStep_sizeFromOffset ==
    /\ pc = "walk"
    /\ LET entryOffset == HEADER_SIZE + i * DIR_ENTRY_SIZE
       IN IF i >= icoInfo.imageCount \/ entryOffset + DIR_ENTRY_SIZE > Len(icoBuffer.bytes)
          THEN pc' = "inspected" /\ UNCHANGED <<i, icoInfo>>
          ELSE LET width == At(icoBuffer.bytes, entryOffset)
                   height == At(icoBuffer.bytes, entryOffset + 1)
                   size == readUInt32LE(icoBuffer.bytes, entryOffset + 12)
               IN /\ icoInfo' = [icoInfo EXCEPT !.images = Append(@,
                          [width |-> IF width = 0 THEN MAX_DIMENSION ELSE width,
                           height |-> IF height = 0 THEN MAX_DIMENSION ELSE height,
                           size |-> size])]
                  /\ i' = i + 1
                  /\ pc' = "walk"
    /\ UNCHANGED <<pngBuffers, imageInfos, dimensionSet, warnings, header,
                   dirEntries, offset, result, error>>
    /\ UNCHANGED cliVars
    /\ UNCHANGED <<pngBuffer, legacy>>
    /\ UNCHANGED icoVars

\* InfoStep without the substitution of 256 for a stored height of 0
InfoStep_heightNotRestored ==
    /\ pc = "walk"
    /\ LET entryOffset == HEADER_SIZE + i * DIR_ENTRY_SIZE
       IN IF i >= icoInfo.imageCount \/ entryOffset + DIR_ENTRY_SIZE > Len(icoBuffer.bytes)
          THEN pc' = "inspected" /\ UNCHANGED <<i, icoInfo>>
          ELSE LET width == At(icoBuffer.bytes, entryOffset)
                   height == At(icoBuffer.bytes, entryOffset + 1)
                   size == readUInt32LE(icoBuffer.bytes, entryOffset + 8)
               IN /\ icoInfo' = [icoInfo EXCEPT !.images = Append(@,
                          [width |-> IF width = 0 THEN MAX_DIMENSION ELSE width,
                           height |-> height,
                           size |-> size])]
                  /\ i' = i + 1
                  /\ pc' = "walk"
    /\ UNCHANGED <<pngBuffers, imageInfos, dimensionSet, warnings, header,
                   dirEntries, offset, result, error>>
    /\ UNCHANGED cliVars
    /\ UNCHANGED <<pngBuffer, legacy>>
    /\ UNCHANGED icoVars

\* InfoStep without the break at an entry that would end past the buffer
InfoStep_noBreak ==
    /\ pc = "walk"
    /\ LET entryOffset == HEADER_SIZE + i * DIR_ENTRY_SIZE
       IN IF i >= icoInfo.imageCount
          THEN pc' = "inspected" /\ UNCHANGED <<i, icoInfo, error>>
          ELSE IF OutOfRange(icoBuffer.bytes, entryOffset + 8, 4)
          THEN /\ pc' = "infoThrew"
               /\ error' = Err("OutOfRange", i + 1, <<>>)
               /\ icoInfo' = NoIcoInfo
               /\ i' = i
          ELSE LET width == At(icoBuffer.bytes, entryOffset)
                   height == At(icoBuffer.bytes, entryOffset + 1)
                   size == readUInt32LE(icoBuffer.bytes, entryOffset + 8)
               IN /\ icoInfo' = [icoInfo EXCEPT !.images = Append(@,
                          [width |-> IF width = 0 THEN MAX_DIMENSION ELSE width,
                           height |-> IF height = 0 THEN MAX_DIMENSION ELSE height,
                           size |-> size])]
                  /\ i' = i + 1
                  /\ pc' = "walk"
                  /\ error' = error
    /\ UNCHANGED <<pngBuffers, imageInfos, dimensionSet, warnings, header,
                   dirEntries, offset, result>>
    /\ UNCHANGED cliVars
    /\ UNCHANGED <<pngBuffer, legacy>>
    /\ UNCHANGED icoVars

\* InfoStep breaking also at an entry that ends exactly where the buffer ends
InfoStep_breakAtEnd ==
    /\ pc = "walk"
    /\ LET entryOffset == HEADER_SIZE + i * DIR_ENTRY_SIZE
       IN IF i >= icoInfo.imageCount \/ entryOffset + DIR_ENTRY_SIZE >= Len(icoBuffer.bytes)
          THEN pc' = "inspected" /\ UNCHANGED <<i, icoInfo, error>>
          ELSE IF OutOfRange(icoBuffer.bytes, entryOffset + 8, 4)
          THEN /\ pc' = "infoThrew"
               /\ error' = Err("OutOfRange", i + 1, <<>>)
               /\ icoInfo' = NoIcoInfo
               /\ i' = i
          ELSE LET width == At(icoBuffer.bytes, entryOffset)
                   height == At(icoBuffer.bytes, entryOffset + 1)
                   size == readUInt32LE(icoBuffer.bytes, entryOffset + 8)
               IN /\ icoInfo' = [icoInfo EXCEPT !.images = Append(@,
                          [width |-> IF width = 0 THEN MAX_DIMENSION ELSE width,
                           height |-> IF height = 0 THEN MAX_DIMENSION ELSE height,
                           size |-> size])]
                  /\ i' = i + 1
                  /\ pc' = "walk"
                  /\ error' = error
    /\ UNCHANGED <<pngBuffers, imageInfos, dimensionSet, warnings, header,
                   dirEntries, offset, result>>
    /\ UNCHANGED cliVars
    /\ UNCHANGED <<pngBuffer, legacy>>
    /\ UNCHANGED icoVars

\* one turn of getIcoInfo's directory walk: an image pushed, or the break at an
\* entry that would end past the buffer, or the end of the loop; a read past
\* the end of the buffer would throw
InfoStep ==
    /\ pc = "walk"
    /\ LET entryOffset == HEADER_SIZE + i * DIR_ENTRY_SIZE
       IN IF i >= icoInfo.imageCount \/ entryOffset + DIR_ENTRY_SIZE > Len(icoBuffer.bytes)
          THEN pc' = "inspected" /\ UNCHANGED <<i, icoInfo, error>>
          ELSE IF OutOfRange(icoBuffer.bytes, entryOffset + 8, 4)
          THEN /\ pc' = "infoThrew"
               /\ error' = Err("OutOfRange", i + 1, <<>>)
               /\ icoInfo' = NoIcoInfo
               /\ i' = i
          ELSE LET width == At(icoBuffer.bytes, entryOffset)
                   height == At(icoBuffer.bytes, entryOffset + 1)
                   size == readUInt32LE(icoBuffer.bytes, entryOffset + 8)
               IN /\ icoInfo' = [icoInfo EXCEPT !.images = Append(@,
                          [width |-> IF width = 0 THEN MAX_DIMENSION ELSE width,
                           height |-> IF height = 0 THEN MAX_DIMENSION ELSE height,
                           size |-> size])]
                  /\ i' = i + 1
                  /\ pc' = "walk"
                  /\ error' = error
    /\ UNCHANGED <<pngBuffers, imageInfos, dimensionSet, warnings, header,
                   dirEntries, offset, result>>
    /\ UNCHANGED cliVars
    /\ UNCHANGED <<pngBuffer, legacy>>
    /\ UNCHANGED icoVars

(***************************************************************************)
(* Inputs of the library calls                                             *)
(***************************************************************************)
\* v as four bytes, most significant first
BE32(v) == <<(v \div 16777216) % 256, (v \div 65536) % 256, (v \div 256) % 256, v % 256>>

\* a PNG stream as far as the encoder reads it: signature, IHDR chunk header,
\* width, height, then tail
Png(w, h, tail) ==
    Buf(PNG_SIGNATURE \o BE32(IHDR_LENGTH) \o IHDR \o BE32(w) \o BE32(h) \o tail)

TailBytes == {0, 255}

Tails == UNION {[1..n -> TailBytes] : n \in 0..MaxTail}

P16 == Png(16, 16, <<>>)
P32 == Png(32, 32, <<255>>)
P256 == Png(256, 256, <<>>)
P16b == Png(16, 16, <<0, 255>>)
P300 == Png(300, 300, <<>>)
Truncated == Buf(SubSeq(P32.bytes, 1, MIN_PNG_LENGTH - 1))

CoreBuffers == {P16, P32, P256, P16b, P300, Truncated}

DimValues == {0, 1, 16, 255, 256, 257, 300, 65552}

\* the values byte p of a header is replaced by: its successor, itself with
\* bit 7 flipped, and 0 (below 128 where p is the top byte of a 32-bit read)
CorruptValues(orig, p) ==
    {c \in {(orig + 1) % 256, (orig + 128) % 256, 0} :
        c # orig /\ (p = 8 => c < 128)}

Corrupted ==
    {Buf([P32.bytes EXCEPT ![p + 1] = c]) :
        <<p, c>> \in {pc0 \in (0..15) \X (0..255) :
                        pc0[2] \in CorruptValues(At(P32.bytes, pc0[1]), pc0[1])}}

\* bytes with the byte at every offset of at replaced by its successor
RECURSIVE Bump(_, _)
Bump(bytes, at) ==
    IF at = {} THEN bytes
    ELSE LET p == CHOOSE q \in at : TRUE
         IN Bump([bytes EXCEPT ![p + 1] = (@ + 1) % 256], at \ {p})

\* buffers with several faults at once: wrong signature bytes, a wrong IHDR
\* length, a wrong type (with and without bit 7 as the only difference), a
\* zero next to an oversized dimension, and a cut before the IHDR fields end
MultiFault ==
    {Buf(SubSeq(Bump([Png(d[1], d[2], <<>>).bytes EXCEPT ![13] = t], sig \cup len), 1, n)) :
        <<d, sig, len, t, n>> \in
            {<<32, 32>>, <<0, 300>>, <<300, 0>>}
                \X {{}, {0}, {3}, {7}, {3, 5}}
                \X {{}, {11}}
                \X {73, 74, 201}
                \X {10, 20, MIN_PNG_LENGTH}}

WideBuffers ==
    {Png(w, h, <<>>) : <<w, h>> \in DimValues \X DimValues}
        \cup {Png(16, 32, t) : t \in Tails}
        \cup {Buf(SubSeq(P32.bytes, 1, n)) : n \in 0..MIN_PNG_LENGTH}
        \cup Corrupted
        \cup {NotABuffer}

Batches ==
    {Batch(items) : items \in UNION {[1..n -> CoreBuffers] : n \in 0..MaxBatch}}
        \cup {Batch(<<x>>) : x \in WideBuffers}
        \cup {Batch(<<P16, x>>) : x \in WideBuffers}
        \cup {Batch(<<x, P32>>) : x \in WideBuffers}
        \cup {Batch(<<x>>) : x \in MultiFault}
        \cup {Batch([k \in 1..MAX_IMAGES |-> IF k % 2 = 0 THEN P16 ELSE P32]),
              Batch([k \in 1..MAX_IMAGES |-> IF k = MAX_IMAGES THEN P300 ELSE P16]),
              Batch([k \in 1..(MAX_IMAGES + 1) |-> P16]),
              Batch([k \in 1..(MAX_IMAGES + 1) |-> IF k = 1 THEN Truncated ELSE P16]),
              NotAnArray}

(***************************************************************************)
(* The command line run (generator.ts)                                     *)
(***************************************************************************)
NoOptions == [yes |-> FALSE, dryRun |-> FALSE, manifest |-> FALSE, browserconfig |-> FALSE]

\* the resolved --output: whether normalizedOutput.includes("..") and whether
\* path.relative(process.cwd(), normalizedOutput).startsWith("..")
InsideCwd == [includesDotDot |-> FALSE, relativeStartsDotDot |-> FALSE]

\* the paths of the run: path.join(options.output, `icon-${w}x${h}.png`), ...
IconPath(w, h) == [name |-> "icon.png", w |-> w, h |-> h]

IcoPath == [name |-> "favicon.ico", w |-> 0, h |-> 0]

ManifestPath == [name |-> "site.webmanifest", w |-> 0, h |-> 0]

XmlPath == [name |-> "browserconfig.xml", w |-> 0, h |-> 0]

OutputDir == [name |-> "output", w |-> 0, h |-> 0]

sizesForBrowser == <<<<70, 70>>, <<150, 150>>, <<310, 150>>, <<310, 310>>>>

\* the bytes sharp puts after the IHDR fields: more of them for a larger image
SharpTail(w) == IF w <= 16 THEN <<>> ELSE IF w <= 32 THEN <<0>> ELSE <<0, 255>>

\* sharp(options.input).resize(w, h).png().toBuffer(): a PNG stream of w x h
SharpPng(w, h) == Png(w, h, SharpTail(w))

\* the data of a file written as text (the manifest, the XML)
TextData == [isBuffer |-> FALSE, bytes |-> <<>>]

\* a task of generatePngIcons that has not returned a buffer
NoTaskBuffer == NotABuffer

Goto(label) == mainPc' = label /\ exitCode' = exitCode

\* process.exit(code)
Exit(code) == mainPc' = "exited" /\ exitCode' = code

\* writeFileSafe that writes whatever options.dryRun says
writeFileSafe_ignoresDryRun(filePath, data) ==
    /\ fs' = fs \cup {filePath}
    /\ writes' = writes \cup
          {[path |-> filePath, data |-> data, existed |-> filePath \in fs]}

\* writeFileSafe, writeJsonSafe: the write, or a log line under --dry-run
writeFileSafe(filePath, data) ==
    IF options.dryRun
    THEN UNCHANGED <<fs, writes>>
    ELSE /\ fs' = fs \cup {filePath}
         /\ writes' = writes \cup
               {[path |-> filePath, data |-> data, existed |-> filePath \in fs]}

\* confirmOverwrite / confirmAction has asked and the user answers
Answer(filePath, ans) == answered' = answered \cup {[path |-> filePath, answer |-> ans]}

encoderVars == <<pngBuffers, pc, encVars, result, error, icoInfo, icoVars, pngBuffer, legacy>>

runInputs == <<options, sizes, outputPath>>

\* the module's own statements: no valid size, exit 1
CheckSizes ==
    /\ mainPc = "load"
    /\ IF Len(sizes) = 0 THEN Exit(1) ELSE Goto("start")
    /\ UNCHANGED <<runInputs, fs, dirMade, writes, answered, task, buffers, tile,
                   encoderVars>>

\* validatePathsAndInput up to its prompt: the input file, its format, the
\* output path outside the current directory, the parent of the output path
ValidatePathsAndInput ==
    /\ mainPc = "start"
    /\ \E inputIsFile \in BOOLEAN, formatSupported \in BOOLEAN, parentIsDirectory \in BOOLEAN :
          IF ~inputIsFile \/ ~formatSupported THEN Exit(1)
          ELSE IF /\ outputPath.includesDotDot
                  /\ outputPath.relativeStartsDotDot
                  /\ ~options.yes
          THEN Goto("pathPrompt")
          ELSE IF ~parentIsDirectory THEN Exit(1)
          ELSE Goto("theme")
    /\ UNCHANGED <<runInputs, fs, dirMade, writes, answered, task, buffers, tile,
                   encoderVars>>

\* the answer to "Continue with output path outside current directory?", then
\* the rest of validatePathsAndInput
ConfirmOutputPath ==
    /\ mainPc = "pathPrompt"
    /\ \E ans \in BOOLEAN, parentIsDirectory \in BOOLEAN :
          /\ Answer(OutputDir, ans)
          /\ IF ~ans THEN Exit(0)
             ELSE IF ~parentIsDirectory THEN Exit(1)
             ELSE Goto("theme")
    /\ UNCHANGED <<runInputs, fs, dirMade, writes, task, buffers, tile, encoderVars>>

\* options.themeColor is given or detected; sharp may fail to read the input
DetectThemeColor ==
    /\ mainPc = "theme"
    /\ \E detected \in BOOLEAN : IF detected THEN Goto("png") ELSE Exit(1)
    /\ UNCHANGED <<runInputs, fs, dirMade, writes, answered, task, buffers, tile,
                   encoderVars>>

\* generatePngIcons: ensureDirSafe, then one task per size is started
StartPngIcons ==
    /\ mainPc = "png"
    /\ dirMade' = (dirMade \/ ~options.dryRun)
    /\ task' = [k \in 1..Len(sizes) |-> [pc |-> "stat", buf |-> NoTaskBuffer]]
    /\ Goto("awaitAll")
    /\ UNCHANGED <<runInputs, fs, writes, answered, buffers, tile, encoderVars>>

\* the task of sizes[k]: pathExists(outPath) answers, and confirmOverwrite
\* returns true under --yes or asks
TaskStat(k) ==
    /\ mainPc # "exited"
    /\ k \in DOMAIN task
    /\ task[k].pc = "stat"
    /\ task' = [task EXCEPT ![k].pc =
                   IF IconPath(sizes[k], sizes[k]) \in fs /\ ~options.yes
                   THEN "prompt" ELSE "resize"]
    /\ Goto(mainPc)
    /\ UNCHANGED <<runInputs, fs, dirMade, writes, answered, buffers, tile,
                   encoderVars>>

\* the task of sizes[k]: the user answers its overwrite prompt
TaskAnswer(k) ==
    /\ mainPc # "exited"
    /\ k \in DOMAIN task
    /\ task[k].pc = "prompt"
    /\ \E ans \in BOOLEAN :
          /\ Answer(IconPath(sizes[k], sizes[k]), ans)
          /\ task' = [task EXCEPT ![k].pc = IF ans THEN "resize" ELSE "skipped"]
    /\ Goto(mainPc)
    /\ UNCHANGED <<runInputs, fs, dirMade, writes, buffers, tile, encoderVars>>

\* the task of sizes[k]: sharp resolves, the file is written, the buffer returned
TaskResized(k) ==
    /\ mainPc # "exited"
    /\ k \in DOMAIN task
    /\ task[k].pc = "resize"
    /\ LET buf == SharpPng(sizes[k], sizes[k])
       IN /\ writeFileSafe(IconPath(sizes[k], sizes[k]), buf)
          /\ task' = [task EXCEPT ![k] = [pc |-> "done", buf |-> buf]]
    /\ Goto(mainPc)
    /\ UNCHANGED <<runInputs, dirMade, answered, buffers, tile, encoderVars>>

\* the task of sizes[k]: sharp rejects, so Promise.all rejects and main's catch
\* exits
TaskResizeFails(k) ==
    /\ mainPc = "awaitAll"
    /\ task[k].pc = "resize"
    /\ task' = [task EXCEPT ![k].pc = "rejected"]
    /\ Exit(1)
    /\ UNCHANGED <<runInputs, fs, dirMade, writes, answered, buffers, tile,
                   encoderVars>>

\* CollectPngIcons taking the buffers from the last task to the first
CollectPngIcons_reversed ==
    /\ mainPc = "awaitAll"
    /\ \A k \in 1..Len(sizes) : task[k].pc \in {"done", "skipped"}
    /\ LET good == SelectSeq(task, LAMBDA t : t.pc # "skipped")
       IN buffers' = [k \in 1..Len(good) |-> good[Len(good) + 1 - k].buf]
    /\ Goto("ico")
    /\ UNCHANGED <<runInputs, fs, dirMade, writes, answered, task, tile, encoderVars>>

\* CollectPngIcons going on as soon as one task has settled
CollectPngIcons_firstSettled ==
    /\ mainPc = "awaitAll"
    /\ \E k \in 1..Len(sizes) : task[k].pc \in {"done", "skipped"}
    /\ LET good == SelectSeq(task, LAMBDA t : t.pc = "done")
       IN buffers' = [k \in 1..Len(good) |-> good[k].buf]
    /\ Goto("ico")
    /\ UNCHANGED <<runInputs, fs, dirMade, writes, answered, task, tile, encoderVars>>

\* Promise.all resolves: the buffers of the tasks that returned one, in the
\* order of the sizes
CollectPngIcons ==
    /\ mainPc = "awaitAll"
    /\ \A k \in 1..Len(sizes) : task[k].pc \in {"done", "skipped"}
    /\ LET good == SelectSeq(task, LAMBDA t : t.pc # "skipped")
       IN buffers' = [k \in 1..Len(good) |-> good[k].buf]
    /\ Goto("ico")
    /\ UNCHANGED <<runInputs, fs, dirMade, writes, answered, task, tile, encoderVars>>

\* generateIco goes on to call encodeIco(buffers)
CallEncodeIco ==
    /\ pngBuffers' = Batch(buffers)
    /\ pc' = "ready"
    /\ Goto("encoding")
    /\ UNCHANGED <<encVars, result, error, icoInfo, icoVars, pngBuffer, legacy>>

\* IcoStat asking for confirmation whatever options.yes says
IcoStat_alwaysAsks ==
    /\ mainPc = "ico"
    /\ IF IcoPath \in fs
       THEN Goto("icoPrompt") /\ UNCHANGED encoderVars
       ELSE CallEncodeIco
    /\ UNCHANGED <<runInputs, fs, dirMade, writes, answered, task, buffers, tile>>

\* generateIco: pathExists(icoPath), confirmOverwrite
IcoStat ==
    /\ mainPc = "ico"
    /\ IF IcoPath \in fs /\ ~options.yes
       THEN Goto("icoPrompt") /\ UNCHANGED encoderVars
       ELSE CallEncodeIco
    /\ UNCHANGED <<runInputs, fs, dirMade, writes, answered, task, buffers, tile>>

\* generateIco: the user answers the overwrite prompt of favicon.ico
IcoAnswer ==
    /\ mainPc = "icoPrompt"
    /\ \E ans \in BOOLEAN :
          /\ Answer(IcoPath, ans)
          /\ IF ans THEN CallEncodeIco
             ELSE Goto("manifest") /\ UNCHANGED encoderVars
    /\ UNCHANGED <<runInputs, fs, dirMade, writes, task, buffers, tile>>

\* generateIco: encodeIco returned, favicon.ico is written
WriteIco ==
    /\ mainPc = "encoding"
    /\ pc = "returned"
    /\ writeFileSafe(IcoPath, result)
    /\ Goto("manifest")
    /\ UNCHANGED <<runInputs, dirMade, answered, task, buffers, tile, encoderVars>>

\* generateIco catching the error of encodeIco and main going on
EncodeIcoThrew_continues ==
    /\ mainPc = "encoding"
    /\ pc = "threw"
    /\ Goto("manifest")
    /\ UNCHANGED <<runInputs, fs, dirMade, writes, answered, task, buffers, tile,
                   encoderVars>>

\* encodeIco threw: generateIco lets it through and main's catch exits
EncodeIcoThrew ==
    /\ mainPc = "encoding"
    /\ pc = "threw"
    /\ Exit(1)
    /\ UNCHANGED <<runInputs, fs, dirMade, writes, answered, task, buffers, tile,
                   encoderVars>>

\* main: generateManifest when --manifest is set, up to its write
GenerateManifest ==
    /\ mainPc = "manifest"
    /\ IF ~options.manifest
       THEN Goto("browserconfig") /\ UNCHANGED <<fs, writes>>
       ELSE IF ManifestPath \in fs /\ ~options.yes
       THEN Goto("manifestPrompt") /\ UNCHANGED <<fs, writes>>
       ELSE Goto("browserconfig") /\ writeFileSafe(ManifestPath, TextData)
    /\ UNCHANGED <<runInputs, dirMade, answered, task, buffers, tile, encoderVars>>

\* generateManifest: the user answers the overwrite prompt
ManifestAnswer ==
    /\ mainPc = "manifestPrompt"
    /\ \E ans \in BOOLEAN :
          /\ Answer(ManifestPath, ans)
          /\ IF ans THEN writeFileSafe(ManifestPath, TextData)
             ELSE UNCHANGED <<fs, writes>>
    /\ Goto("browserconfig")
    /\ UNCHANGED <<runInputs, dirMade, task, buffers, tile, encoderVars>>

\* main: generateBrowserConfig when --browserconfig is set, up to the tile loop
GenerateBrowserConfig ==
    /\ mainPc = "browserconfig"
    /\ IF ~options.browserconfig THEN Goto("finish")
       ELSE IF XmlPath \in fs /\ ~options.yes THEN Goto("xmlPrompt")
       ELSE Goto("tiles")
    /\ tile' = 0
    /\ UNCHANGED <<runInputs, fs, dirMade, writes, answered, task, buffers,
                   encoderVars>>

\* generateBrowserConfig: the user answers the overwrite prompt
XmlAnswer ==
    /\ mainPc = "xmlPrompt"
    /\ \E ans \in BOOLEAN :
          /\ Answer(XmlPath, ans)
          /\ IF ans THEN Goto("tiles") ELSE Goto("finish")
    /\ UNCHANGED <<runInputs, fs, dirMade, writes, task, buffers, tile, encoderVars>>

\* one turn of the tile loop: a tile that does not exist is resized and
\* written (or sharp rejects and main's catch exits)
TileStep ==
    /\ mainPc = "tiles"
    /\ tile < Len(sizesForBrowser)
    /\ LET w == sizesForBrowser[tile + 1][1]
           h == sizesForBrowser[tile + 1][2]
       IN IF IconPath(w, h) \in fs
          THEN Goto(mainPc) /\ UNCHANGED <<fs, writes>>
          ELSE \E resized \in BOOLEAN :
                  IF resized
                  THEN Goto(mainPc) /\ writeFileSafe(IconPath(w, h), SharpPng(w, h))
                  ELSE Exit(1) /\ UNCHANGED <<fs, writes>>
    /\ tile' = tile + 1
    /\ UNCHANGED <<runInputs, dirMade, answered, task, buffers, encoderVars>>

\* generateBrowserConfig: browserconfig.xml is written
WriteXml ==
    /\ mainPc = "tiles"
    /\ tile = Len(sizesForBrowser)
    /\ writeFileSafe(XmlPath, TextData)
    /\ Goto("finish")
    /\ UNCHANGED <<runInputs, dirMade, answered, task, buffers, tile, encoderVars>>

\* main returns: the process ends with code 0
Finish ==
    /\ mainPc = "finish"
    /\ Exit(0)
    /\ UNCHANGED <<runInputs, fs, dirMade, writes, answered, task, buffers, tile,
                   encoderVars>>

(***************************************************************************)
(* Inputs of the command line run                                          *)
(***************************************************************************)
\* longest --sizes list
MaxSizes == 2

SizeValues == {16, 32, 300}

SizeLists == UNION {[1..n -> SizeValues] : n \in 0..MaxSizes}

Options == [yes : BOOLEAN, dryRun : BOOLEAN, manifest : BOOLEAN, browserconfig : BOOLEAN]

OutputPaths == [includesDotDot : BOOLEAN, relativeStartsDotDot : BOOLEAN]

\* the files a run over these sizes can find in its way
FilesInTheWay(sz) ==
    {IconPath(sz[k], sz[k]) : k \in 1..Len(sz)}
        \cup {IcoPath, ManifestPath, XmlPath, IconPath(70, 70)}

\* the output directory at the start: empty, or with the icons of an earlier
\* run, or with all its files
FilesAtStart(sz) ==
    {{}, {IconPath(sz[k], sz[k]) : k \in 1..Len(sz)}, FilesInTheWay(sz)}

\* runs over every sizes list, inside the current directory; and runs over one
\* size with every combination of options and output paths
InitCli ==
    /\ \/ /\ sizes \in SizeLists
          /\ options \in {o \in Options : o.manifest = o.browserconfig}
          /\ outputPath = InsideCwd
       \/ /\ sizes = <<16>>
          /\ options \in Options
          /\ outputPath \in OutputPaths
    /\ fs \in FilesAtStart(sizes)
    /\ dirMade = FALSE
    /\ writes = {}
    /\ answered = {}
    /\ mainPc = "load"
    /\ task = <<>>
    /\ buffers = <<>>
    /\ tile = 0
    /\ exitCode = -1
    /\ pngBuffers = NotAnArray
    /\ pc = "idle"
    /\ i = 0
    /\ imageInfos = <<>>
    /\ dimensionSet = {}
    /\ warnings = <<>>
    /\ header = <<>>
    /\ dirEntries = <<>>
    /\ offset = 0
    /\ result = NotABuffer
    /\ error = NoError
    /\ icoInfo = NoIcoInfo
    /\ icoBuffer = NotABuffer
    /\ icoValid = "none"
    /\ pngBuffer = NotABuffer
    /\ legacy = NoLegacy

NextCli ==
    \/ CheckSizes
    \/ ValidatePathsAndInput
    \/ ConfirmOutputPath
    \/ DetectThemeColor
    \/ StartPngIcons
    \/ \E k \in 1..Len(sizes) : TaskStat(k)
    \/ \E k \in 1..Len(sizes) : TaskAnswer(k)
    \/ \E k \in 1..Len(sizes) : TaskResized(k)
    \/ \E k \in 1..Len(sizes) : TaskResizeFails(k)
    \/ CollectPngIcons
    \/ IcoStat
    \/ IcoAnswer
    \/ CheckArguments
    \/ ValidateStep
    \/ DuplicateStep
    \/ BuildHeader
    \/ DirectoryStep
    \/ Concat
    \/ WriteIco
    \/ EncodeIcoThrew
    \/ GenerateManifest
    \/ ManifestAnswer
    \/ GenerateBrowserConfig
    \/ XmlAnswer
    \/ TileStep
    \/ WriteXml
    \/ Finish

SpecCli == InitCli /\ [][NextCli]_vars

(***************************************************************************)
(* The library specification: one call of encodeIco on a batch, then       *)
(* getIcoInfo on what it returned                                          *)
(***************************************************************************)
Init ==
    /\ pngBuffers \in Batches
    /\ pc = "ready"
    /\ i = 0
    /\ imageInfos = <<>>
    /\ dimensionSet = {}
    /\ warnings = <<>>
    /\ header = <<>>
    /\ dirEntries = <<>>
    /\ offset = 0
    /\ result = NotABuffer
    /\ error = NoError
    /\ icoInfo = NoIcoInfo
    /\ icoBuffer = NotABuffer
    /\ icoValid = "none"
    /\ pngBuffer = NotABuffer
    /\ legacy = NoLegacy
    /\ options = NoOptions
    /\ sizes = <<>>
    /\ outputPath = InsideCwd
    /\ fs = {}
    /\ dirMade = FALSE
    /\ writes = {}
    /\ answered = {}
    /\ mainPc = "library"
    /\ task = <<>>
    /\ buffers = <<>>
    /\ tile = 0
    /\ exitCode = -1

Next ==
    \/ CheckArguments
    \/ ValidateStep
    \/ DuplicateStep
    \/ BuildHeader
    \/ DirectoryStep
    \/ Concat
    \/ IsValidIco
    \/ GetIcoInfo
    \/ InfoStep

Spec == Init /\ [][Next]_vars

(***************************************************************************)
(* isValidIco and getIcoInfo on the buffers a caller comes with            *)
(***************************************************************************)
\* most directory entries behind a header
MaxEntries == 3

\* the six header bytes with these three fields
IcoHeader(reserved, type, count) ==
    writeUInt16LE(writeUInt16LE(writeUInt16LE(Alloc(HEADER_SIZE), reserved, 0), type, 2),
                  count, 4)

HeaderReserved == {0, 1, 256}

HeaderTypes == {0, TYPE_ICO, TYPE_CUR, 3, 257}

HeaderCounts == {0, 1, 2, MaxEntries, MaxEntries + 1, MAX_IMAGES, MAX_IMAGES + 1, 65535}

\* directory entry k of a table: widths and heights 0, 1 and 255 take turns, the
\* size field differs from the offset field
TableEntry(k) ==
    LET e0 == Alloc(DIR_ENTRY_SIZE)
        e1 == SetByte(e0, 0, <<0, 1, 255>>[(k % 3) + 1])
        e2 == SetByte(e1, 1, <<255, 0, 1>>[(k % 3) + 1])
        e3 == writeUInt32LE(e2, 1000 + k, 8)
    IN writeUInt32LE(e3, 70000 + k, 12)

RECURSIVE Table(_)
Table(n) == IF n = 0 THEN <<>> ELSE Table(n - 1) \o TableEntry(n)

\* a header, then a table of MaxEntries entries, cut at every length; and two
\* values that are not Buffers, one of them a Uint8Array with a good header
IcoInputs ==
    {Buf(SubSeq(IcoHeader(r, t, c) \o Table(MaxEntries), 1, n)) :
        <<r, t, c, n>> \in HeaderReserved \X HeaderTypes \X HeaderCounts
                              \X (0..(HEADER_SIZE + MaxEntries * DIR_ENTRY_SIZE))}
        \cup {NotABuffer, [isBuffer |-> FALSE, bytes |-> IcoHeader(0, TYPE_ICO, 1)]}

InitIco ==
    /\ icoBuffer \in IcoInputs
    /\ icoValid = "none"
    /\ pngBuffer = NotABuffer
    /\ legacy = NoLegacy
    /\ pc = "given"
    /\ pngBuffers = NotAnArray
    /\ i = 0
    /\ imageInfos = <<>>
    /\ dimensionSet = {}
    /\ warnings = <<>>
    /\ header = <<>>
    /\ dirEntries = <<>>
    /\ offset = 0
    /\ result = NotABuffer
    /\ error = NoError
    /\ icoInfo = NoIcoInfo
    /\ options = NoOptions
    /\ sizes = <<>>
    /\ outputPath = InsideCwd
    /\ fs = {}
    /\ dirMade = FALSE
    /\ writes = {}
    /\ answered = {}
    /\ mainPc = "library"
    /\ task = <<>>
    /\ buffers = <<>>
    /\ tile = 0
    /\ exitCode = -1

NextIco ==
    \/ IsValidIco
    \/ GetIcoInfo
    \/ InfoStep

SpecIco == InitIco /\ [][NextIco]_vars

(***************************************************************************)
(* pngToIco                                                                *)
(***************************************************************************)
\* pngToIco calling encodeIco on an array of its argument twice over
PngToIco_twice ==
    /\ mainPc = "library"
    /\ pc = "pngToIco"
    /\ pngBuffers' = Batch(<<pngBuffer, pngBuffer>>)
    /\ pc' = "ready"
    /\ UNCHANGED <<encVars, result, error, icoInfo, icoVars, pngBuffer, legacy>>
    /\ UNCHANGED cliVars

\* return encodeIco([pngBuffer]): the call of encodeIco, whose return or throw
\* is pngToIco's
PngToIco ==
    /\ mainPc = "library"
    /\ pc = "pngToIco"
    /\ pngBuffers' = Batch(<<pngBuffer>>)
    /\ pc' = "ready"
    /\ UNCHANGED <<encVars, result, error, icoInfo, icoVars, pngBuffer, legacy>>
    /\ UNCHANGED cliVars

InitPng ==
    /\ pngBuffer \in CoreBuffers \cup WideBuffers
    /\ legacy = NoLegacy
    /\ pc = "pngToIco"
    /\ pngBuffers = NotAnArray
    /\ i = 0
    /\ imageInfos = <<>>
    /\ dimensionSet = {}
    /\ warnings = <<>>
    /\ header = <<>>
    /\ dirEntries = <<>>
    /\ offset = 0
    /\ result = NotABuffer
    /\ error = NoError
    /\ icoInfo = NoIcoInfo
    /\ icoBuffer = NotABuffer
    /\ icoValid = "none"
    /\ options = NoOptions
    /\ sizes = <<>>
    /\ outputPath = InsideCwd
    /\ fs = {}
    /\ dirMade = FALSE
    /\ writes = {}
    /\ answered = {}
    /\ mainPc = "library"
    /\ task = <<>>
    /\ buffers = <<>>
    /\ tile = 0
    /\ exitCode = -1

NextPng ==
    \/ PngToIco
    \/ CheckArguments
    \/ ValidateStep
    \/ DuplicateStep
    \/ BuildHeader
    \/ DirectoryStep
    \/ Concat

SpecPng == InitPng /\ [][NextPng]_vars

(***************************************************************************)
(* The earlier encodeIco, which does not validate: called on the batch     *)
(* once the call of the validating encodeIco has returned or thrown        *)
(***************************************************************************)
\* buf.readUInt32BE(0) !== 0x89504e47 || buf.readUInt32BE(4) !== 0x0d0a1a0a: a
\* 32-bit read differs from a constant exactly when one of its four bytes does
LegacySignatureDiffers(bytes) ==
    \/ SubSeq(bytes, 1, 4) # SubSeq(PNG_SIGNATURE, 1, 4)
    \/ SubSeq(bytes, 5, 8) # SubSeq(PNG_SIGNATURE, 5, 8)

\* what one turn of the forEach callback throws on buf, "none" when it runs to
\* its end: a value without readUInt32BE, a read past the end of the buffer
\* (the second signature read is made only when the first one matched), or a
\* wrong signature
LegacyThrows(buf) ==
    IF ~buf.isBuffer THEN "TypeError"
    ELSE IF OutOfRange(buf.bytes, 0, 4) THEN "RangeError"
    ELSE IF SubSeq(buf.bytes, 1, 4) # SubSeq(PNG_SIGNATURE, 1, 4) THEN "InvalidPngFile"
    ELSE IF OutOfRange(buf.bytes, 4, 4) THEN "RangeError"
    ELSE IF LegacySignatureDiffers(buf.bytes) THEN "InvalidPngFile"
    ELSE IF OutOfRange(buf.bytes, 16, 4) \/ OutOfRange(buf.bytes, 20, 4) THEN "RangeError"
    ELSE "none"

\* the directory table after the callback's writes for image k (from 0)
LegacyEntryWrites(table, buf, k, dataOffset) ==
    LET width == readUInt32BE(buf.bytes, 16)
        height == readUInt32BE(buf.bytes, 20)
        d1 == SetByte(table, k * 16 + 0, IF width = 256 THEN 0 ELSE width)
        d2 == SetByte(d1, k * 16 + 1, IF height = 256 THEN 0 ELSE height)
        d3 == SetByte(d2, k * 16 + 2, 0)
        d4 == SetByte(d3, k * 16 + 3, 0)
        d5 == writeUInt16LE(d4, 1, k * 16 + 4)
        d6 == writeUInt16LE(d5, 32, k * 16 + 6)
        d7 == writeUInt32LE(d6, Len(buf.bytes), k * 16 + 8)
    IN writeUInt32LE(d7, dataOffset, k * 16 + 12)

\* the header, the empty table and the first offset; a value that is not an
\* array has no forEach
LegacyHeader ==
    /\ pc \in {"returned", "threw"}
    /\ legacy.pc = "idle"
    /\ IF ~pngBuffers.isArray
       THEN legacy' = [legacy EXCEPT !.pc = "threw", !.error = Err("TypeError", 0, <<>>)]
       ELSE LET count == Len(pngBuffers.items)
                h0 == Alloc(6)
                h1 == writeUInt16LE(h0, 0, 0)
                h2 == writeUInt16LE(h1, 1, 2)
                h3 == writeUInt16LE(h2, count, 4)
                d0 == Alloc(16 * count)
            IN legacy' = [legacy EXCEPT !.pc = IF count > 0 THEN "each" ELSE "concat",
                                        !.header = h3,
                                        !.dirEntries = d0,
                                        !.offset = Len(h3) + Len(d0)]
    /\ UNCHANGED <<pngBuffers, pc, encVars, result, error, icoInfo>>
    /\ UNCHANGED cliVars
    /\ UNCHANGED pngBuffer
    /\ UNCHANGED icoVars

\* LegacyEach adding the payload's length before it writes the offset
LegacyEach_offsetAfterAdd ==
    /\ legacy.pc = "each"
    /\ LET buf == At(pngBuffers.items, legacy.i)
           thrown == LegacyThrows(buf)
       IN IF thrown # "none"
          THEN legacy' = [legacy EXCEPT !.pc = "threw",
                                        !.error = Err(thrown, legacy.i + 1, <<>>)]
          ELSE legacy' = [legacy EXCEPT
                  !.dirEntries = LegacyEntryWrites(@, buf, legacy.i,
                                                   legacy.offset + Len(buf.bytes)),
                  !.offset = @ + Len(buf.bytes),
                  !.i = @ + 1,
                  !.pc = IF legacy.i + 1 < Len(pngBuffers.items) THEN "each" ELSE "concat"]
    /\ UNCHANGED <<pngBuffers, pc, encVars, result, error, icoInfo>>
    /\ UNCHANGED cliVars
    /\ UNCHANGED pngBuffer
    /\ UNCHANGED icoVars

\* one turn of pngBuffers.forEach
LegacyEach ==
    /\ legacy.pc = "each"
    /\ LET buf == At(pngBuffers.items, legacy.i)
           thrown == LegacyThrows(buf)
       IN IF thrown # "none"
          THEN legacy' = [legacy EXCEPT !.pc = "threw",
                                        !.error = Err(thrown, legacy.i + 1, <<>>)]
          ELSE legacy' = [legacy EXCEPT
                  !.dirEntries = LegacyEntryWrites(@, buf, legacy.i, legacy.offset),
                  !.offset = @ + Len(buf.bytes),
                  !.i = @ + 1,
                  !.pc = IF legacy.i + 1 < Len(pngBuffers.items) THEN "each" ELSE "concat"]
    /\ UNCHANGED <<pngBuffers, pc, encVars, result, error, icoInfo>>
    /\ UNCHANGED cliVars
    /\ UNCHANGED pngBuffer
    /\ UNCHANGED icoVars

\* return Buffer.concat([header, dirEntries, ...pngBuffers])
LegacyConcat ==
    /\ legacy.pc = "concat"
    /\ LET list == <<Buf(legacy.header), Buf(legacy.dirEntries)>> \o pngBuffers.items
       IN legacy' = [legacy EXCEPT !.result = Buf(BufferConcat(list, 1, Len(list))),
                                   !.pc = "returned"]
    /\ UNCHANGED <<pngBuffers, pc, encVars, result, error, icoInfo>>
    /\ UNCHANGED cliVars
    /\ UNCHANGED pngBuffer
    /\ UNCHANGED icoVars

\* one call of encodeIco on a batch, then one call of the earlier encodeIco on
\* the same batch
NextLegacy ==
    \/ CheckArguments
    \/ ValidateStep
    \/ DuplicateStep
    \/ BuildHeader
    \/ DirectoryStep
    \/ Concat
    \/ LegacyHeader
    \/ LegacyEach
    \/ LegacyConcat

SpecLegacy == Init /\ [][NextLegacy]_vars


\* the library called on batches and on buffers a caller comes with
SpecLibrary == (Init \/ InitIco) /\ [][Next]_vars

\* the library calls and the command line runs together
SpecAll == (Init \/ InitCli) /\ [][Next \/ NextCli]_vars

(***************************************************************************)
(* What the claims speak of                                                *)
(***************************************************************************)
\* the buffers handed to encodeIco and their number
Items == pngBuffers.items

N == Len(Items)

\* the sum of the byte lengths of list[lo..hi]
RECURSIVE SumLen(_, _, _)
SumLen(list, lo, hi) ==
    IF lo > hi THEN 0
    ELSE IF lo = hi THEN Len(list[lo].bytes)
    ELSE SumLen(list, lo, (lo + hi) \div 2) + SumLen(list, (lo + hi) \div 2 + 1, hi)

\* the width and height the IHDR chunk of the k-th input (from 1) declares
IhdrWidth(k) == readUInt32BE(Items[k].bytes, 16)

IhdrHeight(k) == readUInt32BE(Items[k].bytes, 20)

\* where the k-th directory entry (from 1) starts in the output
EntryStart(k) == HEADER_SIZE + DIR_ENTRY_SIZE * (k - 1)

\* where the k-th payload (from 1) must start in the output
PayloadStart(k) == HEADER_SIZE + DIR_ENTRY_SIZE * N + SumLen(Items, 1, k - 1)

\* bytes from..from+n-1 (0-based) of a byte sequence
Slice(bytes, from, n) == SubSeq(bytes, from + 1, from + n)

\* encodeIco has just returned its buffer
Returned == pc = "returned"

\* C1: in the buffer encodeIco returns, the i-th directory entry stores the
\* offset 6 + 16*N + the lengths of the buffers before i and the length of
\* buffer i, and the bytes at that offset are buffer i
C1_OffsetsPointAtPayloads ==
    Returned =>
        \A k \in 1..N :
            /\ readUInt32LE(result.bytes, EntryStart(k) + 12) = PayloadStart(k)
            /\ readUInt32LE(result.bytes, EntryStart(k) + 8) = Len(Items[k].bytes)
            /\ Slice(result.bytes,
                     readUInt32LE(result.bytes, EntryStart(k) + 12),
                     readUInt32LE(result.bytes, EntryStart(k) + 8)) = Items[k].bytes

\* a batch of three buffers of three different lengths was encoded
C1_Witness ==
    /\ Returned
    /\ N = 3
    /\ Len(Items[1].bytes) < Len(Items[2].bytes)
    /\ Len(Items[2].bytes) < Len(Items[3].bytes)
    /\ readUInt32LE(result.bytes, EntryStart(3) + 12) = 54 + 24 + 25

\* C2: getIcoInfo(encodeIco(buffers)) reports imageCount = N, N images, and for
\* each the IHDR width and height and the byte length of the input
C2_RoundTrip ==
    pc = "inspected" =>
        /\ icoInfo.imageCount = N
        /\ Len(icoInfo.images) = N
        /\ \A k \in 1..N :
              /\ icoInfo.images[k].width = IhdrWidth(k)
              /\ icoInfo.images[k].height = IhdrHeight(k)
              /\ icoInfo.images[k].size = Len(Items[k].bytes)

\* a batch that repeats a dimension, with payloads of different lengths, went
\* through encodeIco and getIcoInfo
C2_Witness ==
    /\ pc = "inspected"
    /\ N = 3
    /\ IhdrWidth(1) = IhdrWidth(3) /\ IhdrHeight(1) = IhdrHeight(3)
    /\ Len(Items[1].bytes) # Len(Items[3].bytes)
    /\ Len(icoInfo.images) = 3

\* v as two and as four bytes, least significant first
LE16(v) == <<v % 256, (v \div 256) % 256>>

LE32(v) == <<v % 256, (v \div 256) % 256, (v \div 65536) % 256, (v \div 16777216) % 256>>

\* the directory entry the format asks for the k-th input (from 1)
ExpectedEntry(k) ==
    <<IhdrWidth(k) % 256, IhdrHeight(k) % 256, 0, 0>> \o LE16(1) \o LE16(32)
        \o LE32(Len(Items[k].bytes)) \o LE32(PayloadStart(k))

\* C4: the returned buffer is the 6-byte header, then the N 16-byte entries in
\* input order, then the N payloads in input order, and nothing else: its
\* length is 6 + 16*N + the input lengths (one image: 22 + its length, at 22)
C4_Layout ==
    Returned =>
        /\ Len(result.bytes) = 6 + 16 * N + SumLen(Items, 1, N)
        /\ Slice(result.bytes, 0, 6) = <<0, 0>> \o LE16(1) \o LE16(N)
        /\ \A k \in 1..N :
              /\ Slice(result.bytes, 6 + 16 * (k - 1), 16) = ExpectedEntry(k)
              /\ Slice(result.bytes, PayloadStart(k), Len(Items[k].bytes))
                    = Items[k].bytes
        /\ N = 1 =>
              /\ Len(result.bytes) = 22 + Len(Items[1].bytes)
              /\ readUInt32LE(result.bytes, 6 + 12) = 22

\* a single image of 25 bytes was encoded into 47 bytes
C4_Witness ==
    /\ Returned
    /\ N = 1
    /\ Len(Items[1].bytes) = 25
    /\ Len(result.bytes) = 47

\* C5: the first 6 bytes of the output are reserved = 0, type = 1, count = N
\* (u16 LE each): the type is never 2 and the count is the number of inputs
C5_Header ==
    Returned =>
        /\ readUInt16LE(result.bytes, 0) = 0
        /\ readUInt16LE(result.bytes, 2) = 1
        /\ readUInt16LE(result.bytes, 2) # 2
        /\ readUInt16LE(result.bytes, 4) = N

\* the largest batch was encoded: its count field is the bytes 00 01
C5_Witness ==
    /\ Returned
    /\ N = 256
    /\ Slice(result.bytes, 4, 2) = <<0, 1>>

\* C6: byte 0 (byte 1) of an entry is 0 exactly when the width (height) is 256
\* and is the width (height), in 1..255, otherwise; getIcoInfo gives 256 for a
\* stored 0 and the stored byte otherwise, so that 256 x 256 comes back as
\* 256 x 256
C6_Substitution256 ==
    pc = "inspected" =>
        \A k \in 1..N :
            LET b0 == At(result.bytes, EntryStart(k))
                b1 == At(result.bytes, EntryStart(k) + 1)
            IN /\ b0 = 0 <=> IhdrWidth(k) = 256
               /\ b1 = 0 <=> IhdrHeight(k) = 256
               /\ IhdrWidth(k) # 256 => b0 = IhdrWidth(k) /\ b0 \in 1..255
               /\ IhdrHeight(k) # 256 => b1 = IhdrHeight(k) /\ b1 \in 1..255
               /\ icoInfo.images[k].width = (IF b0 = 0 THEN 256 ELSE b0)
               /\ icoInfo.images[k].height = (IF b1 = 0 THEN 256 ELSE b1)
               /\ (IhdrWidth(k) = 256 /\ IhdrHeight(k) = 256) =>
                     (icoInfo.images[k].width = 256 /\ icoInfo.images[k].height = 256)

\* a 256 x 256 image came back from getIcoInfo as 256 x 256, stored as 0, 0
C6_Witness ==
    /\ pc = "inspected"
    /\ N >= 1
    /\ IhdrWidth(1) = 256 /\ IhdrHeight(1) = 256
    /\ At(result.bytes, EntryStart(1)) = 0 /\ At(result.bytes, EntryStart(1) + 1) = 0
    /\ icoInfo.images[1].width = 256 /\ icoInfo.images[1].height = 256

\* C7: every directory entry has byte 2 = 0, byte 3 = 0, bytes 4-5 = 1,
\* bytes 6-7 = 32 and bytes 8-11 = the payload's byte length
C7_EntryFixedFields ==
    Returned =>
        \A k \in 1..N :
            /\ At(result.bytes, EntryStart(k) + 2) = 0
            /\ At(result.bytes, EntryStart(k) + 3) = 0
            /\ readUInt16LE(result.bytes, EntryStart(k) + 4) = 1
            /\ readUInt16LE(result.bytes, EntryStart(k) + 6) = 32
            /\ readUInt32LE(result.bytes, EntryStart(k) + 8) = Len(Items[k].bytes)

\* two images whose bytes after the IHDR fields differ were encoded
C7_Witness ==
    /\ Returned
    /\ N = 2
    /\ Len(Items[1].bytes) = 24
    /\ Len(Items[2].bytes) = 26
    /\ Slice(result.bytes, EntryStart(2) + 4, 8) = <<1, 0, 32, 0, 26, 0, 0, 0>>

\* a buffer that is a PNG stream as far as the encoder's contract goes: 24 bytes
\* or more, the signature, an IHDR chunk of length 13
PassesHeaderChecks(b) ==
    /\ b.isBuffer
    /\ Len(b.bytes) >= 24
    /\ Slice(b.bytes, 0, 8) = <<137, 80, 78, 71, 13, 10, 26, 10>>
    /\ Slice(b.bytes, 8, 4) = <<0, 0, 0, 13>>
    /\ Slice(b.bytes, 12, 4) = <<73, 72, 68, 82>>

WellFormedPng(b) ==
    /\ PassesHeaderChecks(b)
    /\ readUInt32BE(b.bytes, 16) \in 1..256
    /\ readUInt32BE(b.bytes, 20) \in 1..256

\* C8: encodeIco throws on an empty sequence and on more than 256 buffers
\* without validating any buffer, and accepts exactly 256 valid buffers
C8_BatchSize ==
    /\ (pngBuffers.isArray /\ (N = 0 \/ N > 256)) =>
          /\ pc \in {"ready", "threw"}
          /\ pc = "threw" =>
                /\ error.kind = (IF N = 0 THEN "NoBuffers" ELSE "TooManyImages")
                /\ imageInfos = <<>>
                /\ i = 0
    /\ (pngBuffers.isArray /\ N = 256 /\ \A k \in 1..N : WellFormedPng(Items[k])) =>
          pc # "threw"

\* 257 buffers, the first of them no PNG, were refused for their number
C8_Witness ==
    /\ pc = "threw"
    /\ N = 257
    /\ ~WellFormedPng(Items[1])
    /\ error.kind = "TooManyImages"

\* C9: a buffer shorter than 24 bytes, or with another signature, or whose
\* IHDR length is not 13, or whose bytes 12-15 are not 'IHDR', fails validation
\* (no such buffer is among the validated images); a buffer that passes the
\* four checks with dimensions in 1..256 does not fail it
C9_MalformedRejected ==
    /\ \A k \in 1..Len(imageInfos) : PassesHeaderChecks(Items[k])
    /\ (pc = "threw" /\ error.kind = "FailedToProcess") =>
          ~WellFormedPng(Items[error.index])

\* C10: width and height are the big-endian 32-bit values at offsets 16 and
\* 20, and every validated image has both in 1..256
C10_ValidatedDimensions ==
    \A k \in 1..Len(imageInfos) :
        /\ imageInfos[k].width = IhdrWidth(k)
        /\ imageInfos[k].height = IhdrHeight(k)
        /\ imageInfos[k].width \in 1..256
        /\ imageInfos[k].height \in 1..256

\* a buffer whose width is 65552 (low byte 16) was refused after a valid one
C10_Witness ==
    /\ pc = "threw"
    /\ N = 2
    /\ Len(imageInfos) = 1
    /\ error.kind = "FailedToProcess" /\ error.index = 2
    /\ error.detail[1].kind = "DimensionsTooLarge"
    /\ IhdrWidth(2) = 65552

\* the buffer at position k (from 1) of the batch is one validation rejects
FailsValidation(k) == ~validateAndExtractPngInfo(Items[k], k).ok

\* C3: encodeIco is all-or-nothing. While the batch holds a buffer that
\* validation rejects, at any position, the validation loop never gets past
\* that buffer, the call never reaches the code that builds an ICO and no
\* buffer is returned; a call that reports a failed image reports the first
\* rejected one; and in a command line run where encodeIco threw, no write of
\* favicon.ico has happened.
C3_AllOrNothing ==
    /\ (pngBuffers.isArray /\ \E k \in 1..N : FailsValidation(k))
          => /\ pc \in {"idle", "ready", "validate", "threw"}
             /\ result = NotABuffer
    /\ (pc = "validate") => \A k \in 1..i : ~FailsValidation(k)
    /\ (pc = "threw") =>
          /\ result = NotABuffer
          /\ error.kind = "FailedToProcess" =>
                /\ FailsValidation(error.index)
                /\ \A k \in 1..(error.index - 1) : ~FailsValidation(k)
          /\ \A w \in writes : w.path # IcoPath

\* a command line run over two sizes, the last one too large for an ICO: both
\* PNG files are written, encodeIco throws on the second buffer, favicon.ico
\* is not there and the process has ended with code 1
C3_Witness ==
    /\ mainPc = "exited"
    /\ exitCode = 1
    /\ pc = "threw"
    /\ error.kind = "FailedToProcess"
    /\ error.index = 2
    /\ N = 2
    /\ ~FailsValidation(1)
    /\ ~options.dryRun
    /\ IconPath(16, 16) \in fs
    /\ IconPath(300, 300) \in fs
    /\ IcoPath \notin fs
    /\ result = NotABuffer

\* C11: isValidIco is true of every buffer encodeIco returns, batches of 256
\* included: the call does not throw and answers true, and getIcoInfo never
\* refuses the encoder's output.
C11_EncoderOutputValid ==
    /\ Returned => isValidIcoCall(result) = [threw |-> FALSE, value |-> TRUE]
    /\ (pc = "checked" /\ pngBuffers.isArray) => icoValid = "true" /\ icoBuffer = result
    /\ pngBuffers.isArray => pc # "infoThrew"

\* isValidIco has answered for the output of a batch of 256
C11_Witness ==
    /\ pc = "checked"
    /\ pngBuffers.isArray
    /\ N = MAX_IMAGES
    /\ icoValid = "true"
    /\ readUInt16LE(icoBuffer.bytes, 4) = 256

\* the condition of the specification on the first six bytes, byte by byte
HeaderFieldsValid(bytes) ==
    /\ Len(bytes) >= 6
    /\ bytes[1] = 0 /\ bytes[2] = 0
    /\ bytes[3] \in {1, 2} /\ bytes[4] = 0
    /\ bytes[5] + 256 * bytes[6] \in 1..256

\* C12: isValidIco(buffer) is true exactly when the buffer has at least 6
\* bytes, reserved (bytes 0-1) is 0, type (bytes 2-3) is 1 or 2 and count
\* (bytes 4-5) is in 1..256; the answer for a buffer is the answer for its
\* first six bytes alone.
C12_ValidIffHeader ==
    pc = "checked" =>
        /\ icoValid = "true" <=> (icoBuffer.isBuffer /\ HeaderFieldsValid(icoBuffer.bytes))
        /\ (icoBuffer.isBuffer /\ Len(icoBuffer.bytes) >= 6) =>
              isValidIcoCall(Buf(Slice(icoBuffer.bytes, 0, 6))) = isValidIcoCall(icoBuffer)

\* isValidIco answered true for a cursor header declaring 256 images followed
\* by a directory table cut in the middle of an entry
C12_Witness ==
    /\ pc = "checked"
    /\ icoValid = "true"
    /\ Slice(icoBuffer.bytes, 0, 6) = <<0, 0, 2, 0, 0, 1>>
    /\ Len(icoBuffer.bytes) = 6 + 16 + 5

\* C13: isValidIco never raises: for every input it returns a boolean, and
\* false for a value that is not a Buffer and for a buffer of fewer than 6 bytes.
C13_NeverRaises ==
    pc = "checked" =>
        /\ icoValid \in {"true", "false"}
        /\ (~icoBuffer.isBuffer \/ Len(icoBuffer.bytes) < 6) => icoValid = "false"

\* isValidIco answered false for a buffer of 5 bytes
C13_Witness ==
    /\ pc = "checked"
    /\ icoBuffer.isBuffer
    /\ Len(icoBuffer.bytes) = 5
    /\ icoValid = "false"

\* the count field of the buffer handed to getIcoInfo
DeclaredCount == icoBuffer.bytes[5] + 256 * icoBuffer.bytes[6]

\* the number of whole directory entries in the buffer handed to getIcoInfo
WholeEntries == (Len(icoBuffer.bytes) - 6) \div 16

\* C14: getIcoInfo throws, with the validation error, exactly when
\* isValidIco(buffer) is false; for a buffer on which isValidIco is true it
\* goes on to the directory walk and returns, whatever is missing of the
\* directory table or the payloads.
C14_ThrowsIffInvalid ==
    /\ pc = "infoThrew" => error.kind = "InvalidIco" /\ ~isValidIco(icoBuffer)
    /\ pc \in {"walk", "inspected"} => isValidIco(icoBuffer)
    /\ pc = "inspected" => icoInfo.type \in {"ICO", "CUR"}

\* getIcoInfo returned for a buffer that is a header declaring 256 images and
\* nothing else
C14_Witness ==
    /\ pc = "inspected"
    /\ pngBuffers = NotAnArray
    /\ Len(icoBuffer.bytes) = 6
    /\ DeclaredCount = 256
    /\ icoInfo.images = <<>>

\* the smaller of two numbers
Min(a, b) == IF a <= b THEN a ELSE b

\* what the specification says getIcoInfo reports of directory entry k (from 1)
\* of the buffer it was handed
DeclaredImage(k) ==
    LET at == 6 + 16 * (k - 1)
        w == icoBuffer.bytes[at + 1]
        h == icoBuffer.bytes[at + 2]
    IN [width |-> IF w = 0 THEN 256 ELSE w,
        height |-> IF h = 0 THEN 256 ELSE h,
        size |-> icoBuffer.bytes[at + 9] + 256 * icoBuffer.bytes[at + 10]
                    + 65536 * icoBuffer.bytes[at + 11] + 16777216 * icoBuffer.bytes[at + 12]]

\* C15: for a valid header declaring C images in a buffer of L bytes,
\* getIcoInfo returns the images of exactly the first min(C, floor((L - 6) / 16))
\* directory entries, in directory order; imageCount is the declared C, so
\* images.length <= imageCount, with equality only when the whole directory
\* table is in the buffer.
C15_TruncatedDirectory ==
    /\ pc = "walk" => Len(icoInfo.images) = i /\ i <= Min(DeclaredCount, WholeEntries)
    /\ pc = "inspected" =>
          /\ Len(icoInfo.images) = Min(DeclaredCount, WholeEntries)
          /\ \A k \in 1..Len(icoInfo.images) : icoInfo.images[k] = DeclaredImage(k)
          /\ icoInfo.imageCount = DeclaredCount
          /\ Len(icoInfo.images) <= icoInfo.imageCount
          /\ Len(icoInfo.images) = icoInfo.imageCount
                <=> Len(icoBuffer.bytes) >= 6 + 16 * DeclaredCount

\* getIcoInfo returned two images for a header declaring four, the third entry
\* of the buffer lacking its last byte
C15_Witness ==
    /\ pc = "inspected"
    /\ pngBuffers = NotAnArray
    /\ DeclaredCount = 4
    /\ Len(icoBuffer.bytes) = 6 + 16 + 16 + 15
    /\ icoInfo.imageCount = 4
    /\ Len(icoInfo.images) = 2
    /\ icoInfo.images[1].height = 256
    /\ icoInfo.images[2].width = 255

\* C16: the one error encodeIco throws for a batch (of 1..256 buffers) with
\* buffers that validation rejects names the 1-based index of the first of
\* them and carries the reason validation gave for it; the buffers after it
\* were not validated (the loop stopped there, with the images before it
\* collected), and a call that got past validation kept every image.
C16_FirstInvalidReported ==
    /\ (pc = "threw" /\ error.kind = "FailedToProcess") =>
          /\ error.index \in 1..N
          /\ FailsValidation(error.index)
          /\ \A k \in 1..(error.index - 1) : ~FailsValidation(k)
          /\ error.detail = <<validateAndExtractPngInfo(Items[error.index], error.index).error>>
          /\ error.detail[1].index = error.index
          /\ Len(imageInfos) = error.index - 1
          /\ i = error.index - 1
    /\ (pc = "threw" /\ pngBuffers.isArray /\ N \in 1..256
            /\ \E k \in 1..N : FailsValidation(k))
          => error.kind = "FailedToProcess"
    /\ pc \in {"duplicates", "header", "directory", "concat", "returned"}
          => Len(imageInfos) = N

\* a batch of three whose second and third buffers are both rejected: the
\* error names image 2 and says it is too small, one image was collected
C16_Witness ==
    /\ pc = "threw"
    /\ N = 3
    /\ ~FailsValidation(1)
    /\ FailsValidation(2)
    /\ FailsValidation(3)
    /\ error.kind = "FailedToProcess"
    /\ error.index = 2
    /\ error.detail[1].kind = "TooSmall"
    /\ Len(imageInfos) = 1

\* the width x height pair of the k-th input (from 1)
Dims(k) == <<IhdrWidth(k), IhdrHeight(k)>>

\* the positions among the first n inputs whose pair occurred at an earlier one
Repeats(n) == {k \in 1..n : \E j \in 1..(k - 1) : Dims(j) = Dims(k)}

\* C17: duplicate width x height pairs never block encoding. A batch of 1..256
\* buffers that all pass validation never makes encodeIco throw; the returned
\* buffer has an entry and a payload for every input, duplicates included, and
\* is the buffer the layout alone determines (nothing of it depends on the
\* duplicate check); and one warning is emitted, in input order, for each
\* image whose pair occurred earlier in the batch.
C17_DuplicatesOnlyWarn ==
    /\ (pngBuffers.isArray /\ N \in 1..256 /\ \A k \in 1..N : ~FailsValidation(k))
          => pc # "threw"
    /\ pc = "duplicates" =>
          /\ Len(warnings) = Cardinality(Repeats(i))
          /\ (i \in Repeats(i)) => warnings[Len(warnings)] = Dims(i)
    /\ Returned =>
          /\ Len(warnings) = Cardinality(Repeats(N))
          /\ \A m \in 1..Len(warnings) : \E k \in Repeats(N) : warnings[m] = Dims(k)
          /\ Len(result.bytes) = 6 + 16 * N + SumLen(Items, 1, N)
          /\ readUInt16LE(result.bytes, 4) = N
          /\ \A k \in 1..N :
                /\ Slice(result.bytes, EntryStart(k), 16) = ExpectedEntry(k)
                /\ Slice(result.bytes, PayloadStart(k), Len(Items[k].bytes)) = Items[k].bytes

\* three images, the second and third with the dimensions of the first but
\* one of them with other bytes: two warnings, three entries, three payloads
C17_Witness ==
    /\ Returned
    /\ N = 3
    /\ Dims(1) = <<16, 16>>
    /\ Dims(2) = <<16, 16>>
    /\ Dims(3) = <<16, 16>>
    /\ Items[2] # Items[3]
    /\ warnings = <<<<16, 16>>, <<16, 16>>>>
    /\ readUInt16LE(result.bytes, 4) = 3

\* C18: encodeIco (with validateAndExtractPngInfo), isValidIco and getIcoInfo
\* never modify their input: no step of a call, returning or throwing,
\* changes the array handed to encodeIco or the bytes or length of a buffer in
\* it, nor the buffer handed to isValidIco / getIcoInfo (the caller's own, or
\* the one encodeIco returned).
C18_InputsNotModified ==
    [][ /\ pngBuffers' = pngBuffers
        /\ pc \in {"given", "checked", "walk"} => icoBuffer' = icoBuffer
        /\ pc \in {"returned", "checked", "walk"} => result' = result ]_vars

\* encodeIco, isValidIco and getIcoInfo have all run on a batch of three
\* buffers and the encoder's output
C18_Witness ==
    /\ pc = "inspected"
    /\ pngBuffers.isArray
    /\ N = 3
    /\ icoValid = "true"
    /\ icoBuffer = result
    /\ Len(icoInfo.images) = 3
    /\ \A k \in 1..3 : Items[k].isBuffer /\ ~FailsValidation(k)

\* encodeIco returned for three PNGs of 16x16, 32x32 and 256x256, in that order
EncodedThreeSizes ==
    /\ Returned
    /\ N = 3
    /\ Dims(1) = <<16, 16>>
    /\ Dims(2) = <<32, 32>>
    /\ Dims(3) = <<256, 256>>

\* C19 as the specification words it: the third directory entry has width
\* byte 0, height byte 0 and payload offset 22 + 48 + len(first) + len(second).
C19_ThirdEntryAsWorded ==
    EncodedThreeSizes =>
        /\ At(result.bytes, EntryStart(3)) = 0
        /\ At(result.bytes, EntryStart(3) + 1) = 0
        /\ readUInt32LE(result.bytes, EntryStart(3) + 12)
              = 22 + 48 + Len(Items[1].bytes) + Len(Items[2].bytes)

\* C19, amended: encoding three PNGs sized 16x16, 32x32 and 256x256 in that
\* order gives a third directory entry with width byte 0, height byte 0 and
\* payload offset 6 + 48 + len(first) + len(second): the 6-byte header and the
\* three 16-byte entries come before the payloads, and the third payload is
\* found at that offset.
C19_ThirdEntry ==
    EncodedThreeSizes =>
        /\ At(result.bytes, EntryStart(3)) = 0
        /\ At(result.bytes, EntryStart(3) + 1) = 0
        /\ readUInt32LE(result.bytes, EntryStart(3) + 12)
              = 6 + 48 + Len(Items[1].bytes) + Len(Items[2].bytes)
        /\ Slice(result.bytes, 6 + 48 + Len(Items[1].bytes) + Len(Items[2].bytes),
                 Len(Items[3].bytes)) = Items[3].bytes

\* the three sizes were encoded from buffers of 24, 25 and 24 bytes: the third
\* entry stores the offset 103
C19_Witness ==
    /\ EncodedThreeSizes
    /\ Len(Items[1].bytes) = 24
    /\ Len(Items[2].bytes) = 25
    /\ Slice(result.bytes, EntryStart(3), 2) = <<0, 0>>
    /\ readUInt32LE(result.bytes, EntryStart(3) + 12) = 103

\* C20: a resize that fails for one size is not a hard failure of the run:
\* the size is left out of the batch handed to encodeIco and the run goes on
\* with the other sizes, so a run with a rejected resize task has not ended
\* with exit code 1 with encodeIco never called.
C20_ResizeFailureTolerated ==
    \A k \in 1..Len(task) :
        task[k].pc = "rejected" => ~(mainPc = "exited" /\ exitCode = 1 /\ pc = "idle")

\* every task generatePngIcons started has settled: generated or skipped
AllTasksSettled ==
    /\ Len(task) = Len(sizes)
    /\ \A k \in 1..Len(task) : task[k].pc \in {"done", "skipped"}

\* main is past generateIco
PastIcoStep ==
    mainPc \in {"manifest", "manifestPrompt", "browserconfig", "xmlPrompt", "tiles",
                "finish"}

\* C21: in a command line run encodeIco is called at most once (a call starts
\* only from the state in which it was never called) and only when every
\* per-size task of generatePngIcons has settled; while the call runs, and at
\* every later point, no task is still in flight; and the manifest and
\* browserconfig steps are reached only when the ICO step has finished:
\* skipped without a call, or encodeIco returned and the write was made.
C21_EncodeAfterAllResizes ==
    /\ [](pc # "idle" => AllTasksSettled)
    /\ [](mainPc \in {"ico", "icoPrompt", "encoding"} => AllTasksSettled)
    /\ [](PastIcoStep => /\ AllTasksSettled
                         /\ pc \in {"idle", "returned"}
                         /\ (pc = "returned" /\ ~options.dryRun) => IcoPath \in fs)
    /\ [][pc' = "ready" => (pc = "idle" /\ mainPc \in {"ico", "icoPrompt"})]_vars
    /\ [][pc # "idle" => pc' # "idle"]_vars

\* encodeIco is validating the batch of a run over two sizes, one generated
\* and one skipped by the user
C21_Witness ==
    /\ mainPc = "encoding"
    /\ pc = "validate"
    /\ Len(sizes) = 2
    /\ task[1].pc = "done"
    /\ task[2].pc = "skipped"
    /\ N = 1

\* C22: with --dry-run no run creates the directory or writes a file, whatever
\* the other options: no write call was made, the directory was not made, and
\* the files that exist are still the ones the run started with.
C22_DryRunWritesNothing ==
    options.dryRun =>
        /\ writes = {}
        /\ dirMade = FALSE
        /\ fs \in FilesAtStart(sizes)

\* a dry run with --manifest and --browserconfig in an empty directory has gone
\* through every step, encodeIco included, and ended with code 0
C22_Witness ==
    /\ options.dryRun
    /\ options.manifest
    /\ options.browserconfig
    /\ mainPc = "exited"
    /\ exitCode = 0
    /\ pc = "returned"
    /\ tile = Len(sizesForBrowser)
    /\ fs = {}
    /\ writes = {}
    /\ dirMade = FALSE

\* the resolved output directory lies outside the current working directory:
\* the path from the one to the other starts with ".."
OutsideCwd == outputPath.relativeStartsDotDot

\* main has gone past validatePathsAndInput into the generating steps
Generating ==
    mainPc \in {"theme", "png", "awaitAll", "ico", "icoPrompt", "encoding", "manifest",
                "manifestPrompt", "browserconfig", "xmlPrompt", "tiles", "finish"}

\* C23: when the output directory lies outside the current working directory
\* and --yes is not given, nothing is generated before the user has confirmed
\* the path at the prompt, and a run whose user declined has ended without
\* creating the directory or writing a file.
C23_OutsidePathConfirmed ==
    (OutsideCwd /\ ~options.yes) =>
        /\ (Generating \/ dirMade \/ writes # {})
              => [path |-> OutputDir, answer |-> TRUE] \in answered
        /\ [path |-> OutputDir, answer |-> FALSE] \in answered
              => mainPc = "exited" /\ exitCode = 0 /\ ~dirMade /\ writes = {}

\* the paths of the write calls made so far
Written == {w.path : w \in writes}

\* C24: with --yes no prompt is ever issued: no prompt is pending, none was
\* answered, no task and no step was skipped; every target that existed is
\* overwritten, so a run that is not a dry run and ends with code 0 has
\* written every icon, favicon.ico and the manifest and browserconfig files
\* asked for.
C24_YesNeverPrompts ==
    options.yes =>
        /\ answered = {}
        /\ mainPc \notin {"pathPrompt", "icoPrompt", "manifestPrompt", "xmlPrompt"}
        /\ \A k \in 1..Len(task) : task[k].pc \notin {"prompt", "skipped"}
        /\ PastIcoStep => pc = "returned"
        /\ (mainPc = "exited" /\ exitCode = 0 /\ ~options.dryRun) =>
              /\ \A k \in 1..Len(sizes) : IconPath(sizes[k], sizes[k]) \in Written
              /\ IcoPath \in Written
              /\ options.manifest => ManifestPath \in Written
              /\ options.browserconfig => XmlPath \in Written

\* a run with --yes, --manifest and --browserconfig into a directory that
\* already had all its files, outside the current directory: everything was
\* overwritten and nothing was asked
C24_Witness ==
    /\ options.yes
    /\ ~options.dryRun
    /\ options.manifest
    /\ options.browserconfig
    /\ outputPath.includesDotDot
    /\ outputPath.relativeStartsDotDot
    /\ mainPc = "exited"
    /\ exitCode = 0
    /\ answered = {}
    /\ \A p \in {IcoPath, ManifestPath, XmlPath, IconPath(16, 16)} :
          \E w \in writes : w.path = p /\ w.existed

\* C25: pngToIco(b) is encodeIco([b]): the call it makes is on the array of b
\* alone, it returns exactly when b passes validation, with the bytes of the
\* one-image file of b (header with count 1, the entry of b at offset 22, b),
\* and it throws in every other case, with encodeIco's error for image 1.
C25_PngToIcoIsEncodeOfOne ==
    /\ pc # "pngToIco" => pngBuffers = Batch(<<pngBuffer>>)
    /\ pc \in {"duplicates", "header", "directory", "concat", "returned"}
          => validateAndExtractPngInfo(pngBuffer, 1).ok
    /\ pc = "returned" =>
          result.bytes = <<0, 0, 1, 0, 1, 0>> \o ExpectedEntry(1) \o pngBuffer.bytes
    /\ pc = "threw" =>
          /\ ~validateAndExtractPngInfo(pngBuffer, 1).ok
          /\ error = Err("FailedToProcess", 1,
                         <<validateAndExtractPngInfo(pngBuffer, 1).error>>)
          /\ result = NotABuffer

\* pngToIco returned the 46-byte file of a 256 x 256 PNG of 24 bytes
C25_Witness ==
    /\ pc = "returned"
    /\ pngBuffer = P256
    /\ Len(result.bytes) = 46
    /\ Slice(result.bytes, 4, 4) = <<1, 0, 0, 0>>
    /\ Slice(result.bytes, 22, 24) = pngBuffer.bytes

\* the positions in the sizes list whose task generated its icon, in list order
GeneratedPositions ==
    SelectSeq([k \in 1..Len(task) |-> k], LAMBDA k : task[k].pc = "done")

\* the PNG of every non-skipped size, in the order of the sizes list
BatchInSizesOrder ==
    [m \in 1..Len(GeneratedPositions) |->
        SharpPng(sizes[GeneratedPositions[m]], sizes[GeneratedPositions[m]])]

\* C26: whatever the order in which the concurrent tasks complete, the batch
\* generatePngIcons returns, and encodeIco is called with, holds exactly one
\* buffer per non-skipped size, in the order of the sizes list; so the
\* directory entries of the favicon.ico that is encoded follow that order.
C26_BatchFollowsSizesOrder ==
    /\ (AllTasksSettled /\ mainPc \notin {"awaitAll", "exited"})
          => buffers = BatchInSizesOrder
    /\ pc # "idle" => pngBuffers = Batch(BatchInSizesOrder)
    /\ pc = "returned" =>
          /\ readUInt16LE(result.bytes, 4) = Len(GeneratedPositions)
          /\ \A m \in 1..Len(GeneratedPositions) :
                /\ At(result.bytes, EntryStart(m)) = sizes[GeneratedPositions[m]] % 256
                /\ At(result.bytes, EntryStart(m) + 1) = sizes[GeneratedPositions[m]] % 256

\* sizes 32,16: the encoded directory has the 32 x 32 entry first, then 16 x 16
C26_Witness ==
    /\ pc = "returned"
    /\ sizes = <<32, 16>>
    /\ task[1].pc = "done"
    /\ task[2].pc = "done"
    /\ At(result.bytes, EntryStart(1)) = 32
    /\ At(result.bytes, EntryStart(2)) = 16

\* C27: without --yes and without --dry-run, a PNG icon that existed at the
\* moment it was written was overwritten only after the user answered yes to
\* the overwrite prompt of that path, in every interleaving of the per-size
\* tasks and also when the sizes list names a size more than once.
C27_OverwriteOnlyConfirmed ==
    (~options.yes /\ ~options.dryRun) =>
        \A w \in writes :
            (w.path.name = "icon.png" /\ w.existed)
                => [path |-> w.path, answer |-> TRUE] \in answered

\* favicon.ico was written in this run
IcoWritten == \E w \in writes : w.path = IcoPath

\* generatePngIcons has returned a batch that encodeIco cannot take: empty
\* (every size skipped) or with an image above 256
BadBatchCollected ==
    /\ Len(sizes) > 0
    /\ AllTasksSettled
    /\ mainPc # "awaitAll"
    /\ \/ Len(buffers) = 0
       \/ \E m \in 1..Len(buffers) :
              \/ readUInt32BE(buffers[m].bytes, 16) > 256
              \/ readUInt32BE(buffers[m].bytes, 20) > 256

\* favicon.ico is written only in a run that is not a dry run, when the file
\* did not exist or its overwrite was confirmed, and after encodeIco returned
IcoWrittenOnlyWhen ==
    IcoWritten =>
        /\ ~options.dryRun
        /\ pc = "returned"
        /\ \A w \in writes :
              (w.path = IcoPath /\ w.existed)
                  => (options.yes \/ [path |-> IcoPath, answer |-> TRUE] \in answered)

C29_LegacyEncodesTheSame ==
    pc = "returned" =>
        /\ legacy.pc # "threw"
        /\ legacy.pc \in {"each", "concat", "returned"} => legacy.header = header
        /\ legacy.pc = "each" =>
              SubSeq(legacy.dirEntries, 1, 16 * legacy.i) = SubSeq(dirEntries, 1, 16 * legacy.i)
        /\ legacy.pc \in {"concat", "returned"} => legacy.dirEntries = dirEntries
        /\ legacy.pc = "returned" => legacy.result = result

\* both encoders returned for a batch of three with a 256-pixel image and a
\* repeated dimension
C29_Witness ==
    /\ pc = "returned"
    /\ legacy.pc = "returned"
    /\ Items = <<P16, P256, P16b>>
    /\ Len(warnings) = 1
    /\ legacy.result.isBuffer
    /\ Len(legacy.result.bytes) = 54 + SumLen(Items, 1, 3)

\* the checks of validateAndExtractPngInfo in the order the specification
\* lists them, as predicates on the bytes: check r fails on buffer b.  The
\* type check is the one the code makes, on the field decoded as ASCII.
CheckFails(b, r) ==
    CASE r = 1 -> ~b.isBuffer
      [] r = 2 -> Len(b.bytes) < 24
      [] r = 3 -> \E p \in 0..7 : At(b.bytes, p) # At(PNG_SIGNATURE, p)
      [] r = 4 -> Slice(b.bytes, 8, 4) # <<0, 0, 0, 13>>
      [] r = 5 -> [k \in 1..4 |-> At(b.bytes, 11 + k) % 128] # IHDR
      [] r = 6 -> Slice(b.bytes, 16, 4) = <<0, 0, 0, 0>> \/ Slice(b.bytes, 20, 4) = <<0, 0, 0, 0>>
      [] r = 7 -> readUInt32BE(b.bytes, 16) > 256 \/ readUInt32BE(b.bytes, 20) > 256

\* the place in that order of the check an error kind reports
CheckRank(kind) ==
    CASE kind = "ExpectedBuffer" -> 1
      [] kind = "TooSmall" -> 2
      [] kind = "InvalidSignature" -> 3
      [] kind = "InvalidIhdrLength" -> 4
      [] kind = "ExpectedIhdr" -> 5
      [] kind = "InvalidDimensions" -> 6
      [] kind = "DimensionsTooLarge" -> 7

\* C30: the failure encodeIco reports for an image is that of the first check,
\* in the order not-a-buffer, too short, signature, IHDR length, IHDR type,
\* zero dimension, oversized dimension, that fails on it: every check before
\* the reported one passes; a signature failure names the lowest position
\* that differs; and an image is accepted only when all seven checks pass
C30_FirstFailingCheck ==
    /\ (pc = "threw" /\ error.kind = "FailedToProcess") =>
          LET b == Items[error.index]
              e == error.detail[1]
          IN /\ e.kind \in {"ExpectedBuffer", "TooSmall", "InvalidSignature",
                            "InvalidIhdrLength", "ExpectedIhdr",
                            "InvalidDimensions", "DimensionsTooLarge"}
             /\ CheckFails(b, CheckRank(e.kind))
             /\ \A r \in 1..(CheckRank(e.kind) - 1) : ~CheckFails(b, r)
             /\ e.kind = "InvalidSignature" =>
                   /\ At(b.bytes, e.detail[1]) # At(PNG_SIGNATURE, e.detail[1])
                   /\ \A p \in 0..(e.detail[1] - 1) : At(b.bytes, p) = At(PNG_SIGNATURE, p)
    /\ \A k \in 1..Len(imageInfos) : \A r \in 1..7 : ~CheckFails(Items[k], r)

\* a buffer of width 0 and height 300 was refused for its zero dimension
C30_Witness ==
    /\ pc = "threw"
    /\ Items = <<Png(0, 300, <<>>)>>
    /\ error.kind = "FailedToProcess"
    /\ error.detail[1].kind = "InvalidDimensions"
    /\ error.detail[1].detail = <<0, 300>>

====
